---------------------------- MODULE Spec2Model ----------------------------
(***************************************************************************)
(* A model of the swc-condition-switch plugin (src/src/lib.rs).            *)
(*                                                                         *)
(* The plugin runs two tree folds over a parsed program:                   *)
(*   TransformVisitor      rewrites <Condition if={..}> and <Switch>       *)
(*                         elements into conditional expressions,          *)
(*   PostTransformVisitor  strips the placeholder elements the first fold  *)
(*                         leaves in expression positions.                 *)
(*                                                                         *)
(* Syntax-tree nodes are records tagged by the field k (the swc enum       *)
(* variant).  Source spans carry no behaviour in either fold and are left  *)
(* out of the records.  Every fold of TransformVisitor threads the         *)
(* visitor's one mutable field, current_context: a fold operator takes the *)
(* value of the field on entry and returns [n |-> node, c |-> field on     *)
(* exit].                                                                  *)
(***************************************************************************)
EXTENDS Naturals, Sequences, FiniteSets

VARIABLES pc, input, mid, out, ctxAfter

vars == <<pc, input, mid, out, ctxAfter>>

-----------------------------------------------------------------------------
(* The statics of lib.rs, lines 11-19.                                     *)

CONDITION_TAG == "Condition"
SWITCH_TAG == "Switch"
IF_ATTR == "if"
ELSE_ATTR == "else"
SHORT_CIRCUIT_ATTR == "shortCircuit"
BOOLEAN_FUNC == "Boolean"
REACT_FRAGMENT == "React.Fragment"
CONDITION_PLACEHOLDER == "__CONDITION_PLACEHOLDER__"
SWITCH_PLACEHOLDER == "__SWITCH_PLACEHOLDER__"

(* enum WrapperType *)
WrapperType == {"Jsx", "Assignment", "Return"}

-----------------------------------------------------------------------------
(* Constructors of the syntax-tree nodes the folds look at.                *)

None == [k |-> "None"]
Ident(s) == [k |-> "Ident", sym |-> s]
NullLit == [k |-> "Null"]
BoolLit(b) == [k |-> "Bool", bval |-> b]
Call(f, a) == [k |-> "Call", callee |-> f, args |-> a]
Cond(t, c, a) == [k |-> "Cond", test |-> t, cons |-> c, alt |-> a]
Paren(e) == [k |-> "Paren", expr |-> e]
Unary(o, a) == [k |-> "Unary", op |-> o, arg |-> a]
Bin(o, l, r) == [k |-> "Bin", op |-> o, left |-> l, right |-> r]
Assign(l, r) == [k |-> "Assign", left |-> l, right |-> r]
Arrow(b) == [k |-> "Arrow", body |-> b]

NameIdent(s) == [t |-> "Ident", sym |-> s]
NameMember(o, p) == [t |-> "Member", obj |-> o, prop |-> p]
JSXElement(nm, as, cs) == [k |-> "JSXElement", name |-> nm, attrs |-> as, children |-> cs]
JSXFragment(cs) == [k |-> "JSXFragment", children |-> cs]
JSXText(v) == [k |-> "JSXText", value |-> v]
JSXExprContainer(e) == [k |-> "JSXExprContainer", expr |-> e]
JSXEmptyExpr == [k |-> "JSXEmptyExpr"]
JSXSpreadChild(e) == [k |-> "JSXSpreadChild", expr |-> e]
JSXAttr(nm, v) == [t |-> "JSXAttr", name |-> nm, aval |-> v]
SpreadElement(e) == [t |-> "SpreadElement", expr |-> e]
Str(s) == [k |-> "Str", sval |-> s]

ReturnStmt(a) == [k |-> "Return", arg |-> a]
VarDeclarator(x, i) == [k |-> "VarDecl", id |-> x, init |-> i]
ExprStmt(e) == [k |-> "ExprStmt", expr |-> e]

(* The result of a fold of TransformVisitor: the node and current_context  *)
(* as the fold leaves it.                                                  *)
R(node, c) == [n |-> node, c |-> c]

-----------------------------------------------------------------------------
(* Text values are sequences of characters; "sp" and "nl" are the white    *)
(* space characters, so str::trim and str::contains('\n') are computed.    *)

WhiteSpace == {"sp", "nl"}

trim_is_empty(v) == \A i \in 1..Len(v) : v[i] \in WhiteSpace

contains_newline(v) == \E i \in 1..Len(v) : v[i] = "nl"

-----------------------------------------------------------------------------
(* TransformVisitor: attribute and child predicates.                       *)

(* Is this attribute a JSXAttr whose name is the identifier nm?            *)
AttrNamed(attr, nm) ==
    /\ attr.t = "JSXAttr"
    /\ attr.name.t = "Ident"
    /\ attr.name.sym = nm

(* Does this attribute carry nm={expr}, an expression container holding    *)
(* an expression?                                                          *)
AttrHasExpr(attr, nm) ==
    /\ AttrNamed(attr, nm)
    /\ attr.aval.k = "JSXExprContainer"
    /\ attr.aval.expr.k # "JSXEmptyExpr"

(* The first `if` attribute whose value is {expr} gives the condition;     *)
(* None when there is none.                                                *)
extract_condition_from_attrs(attrs) ==
    LET hits == SelectSeq(attrs, LAMBDA a : AttrHasExpr(a, IF_ATTR))
    IN  IF hits = <<>> THEN None ELSE Head(hits).aval.expr

has_else_attr(attrs) ==
    \E i \in 1..Len(attrs) : AttrNamed(attrs[i], ELSE_ATTR)

extract_short_circuit_attr(attrs) ==
    \E i \in 1..Len(attrs) : AttrNamed(attrs[i], SHORT_CIRCUIT_ATTR)

is_switch_case_element(element) ==
    /\ element.name.t = "Member"
    /\ element.name.obj = "Switch"
    /\ element.name.prop = "Case"

(* A test that takes every Switch for one with cases.                      *)
Mutant_has_switch_case_children(children) == TRUE

has_switch_case_children(children) ==
    \E i \in 1..Len(children) :
        /\ children[i].k = "JSXElement"
        /\ is_switch_case_element(children[i])

is_non_whitespace_child(child) ==
    IF child.k = "JSXText" THEN ~trim_is_empty(child.value) ELSE TRUE

filter_non_whitespace_children(children) ==
    SelectSeq(children, is_non_whitespace_child)

-----------------------------------------------------------------------------
(* TransformVisitor: the elements it builds.                               *)

(* <React.Fragment>children</React.Fragment>, attrs: vec![]                *)
ReactFragmentElement(children) ==
    JSXElement(NameIdent(REACT_FRAGMENT), <<>>, children)

(* <__CONDITION_PLACEHOLDER__>{expr}</__CONDITION_PLACEHOLDER__>, built    *)
(* from condition_placeholder_ident.                                       *)
PlaceholderElement(expr) ==
    JSXElement(NameIdent(CONDITION_PLACEHOLDER), <<>>, <<JSXExprContainer(expr)>>)

(* Boolean(condition) *)
BooleanCall(condition) == Call(Ident(BOOLEAN_FUNC), <<condition>>)

(* A test that is coerced in no context.                                   *)
Mutant_ConditionTest_Raw(condition, ctx) == condition

(* A test that is coerced in every context.                                *)
Mutant_ConditionTest(condition, ctx) == BooleanCall(condition)

(* The test of a rewritten Condition: lines 197-211.                       *)
ConditionTest(condition, ctx) ==
    IF ctx = "Return" THEN condition ELSE BooleanCall(condition)

(* A packaging that makes a placeholder in every context.                  *)
Mutant_PackageExpr(expr, ctx) == PlaceholderElement(expr)

(* The element that carries a rewritten expression: lines 220-261 and      *)
(* 574-615.                                                                *)
PackageExpr(expr, ctx) ==
    IF ctx = "Jsx"
    THEN ReactFragmentElement(<<JSXExprContainer(expr)>>)
    ELSE PlaceholderElement(expr)

create_conditional_jsx(condition, children, ctx) ==
    LET fragment == JSXFragment(children)
        test_expr == ConditionTest(condition, ctx)
        conditional_expr == Cond(test_expr, fragment, NullLit)
    IN  PackageExpr(conditional_expr, ctx)

-----------------------------------------------------------------------------
(* TransformVisitor::create_switch_transformation and the two assemblies.  *)

(* Option<Vec<JSXElementChild>> *)
SomeChildren(children) == [k |-> "Some", children |-> children]

(* A collecting step that puts a new normal branch in front of those       *)
(* collected so far.                                                       *)
Mutant_CollectChild(acc, child) ==
    IF child.k = "JSXElement" /\ is_switch_case_element(child)
    THEN IF extract_condition_from_attrs(child.attrs) # None
         THEN [acc EXCEPT !.switch_cases =
                  <<[condition |-> extract_condition_from_attrs(child.attrs),
                     children |-> child.children]>> \o @]
         ELSE IF has_else_attr(child.attrs)
              THEN [acc EXCEPT !.else_case = SomeChildren(child.children)]
              ELSE acc
    ELSE acc

(* A collecting step that takes a case with neither attribute for an else  *)
(* case.                                                                   *)
Mutant_CollectChild_AnyCase(acc, child) ==
    IF child.k = "JSXElement" /\ is_switch_case_element(child)
    THEN IF extract_condition_from_attrs(child.attrs) # None
         THEN [acc EXCEPT !.switch_cases =
                  Append(@, [condition |-> extract_condition_from_attrs(child.attrs),
                             children |-> child.children])]
         ELSE [acc EXCEPT !.else_case = SomeChildren(child.children)]
    ELSE acc

(* A collecting step that keeps the first else case it meets.              *)
Mutant_CollectChild_FirstElse(acc, child) ==
    IF child.k = "JSXElement" /\ is_switch_case_element(child)
    THEN IF extract_condition_from_attrs(child.attrs) # None
         THEN [acc EXCEPT !.switch_cases =
                  Append(@, [condition |-> extract_condition_from_attrs(child.attrs),
                             children |-> child.children])]
         ELSE IF has_else_attr(child.attrs) /\ acc.else_case.k = "None"
              THEN [acc EXCEPT !.else_case = SomeChildren(child.children)]
              ELSE acc
    ELSE acc

(* A collecting step that takes no further normal branch once it has met   *)
(* an else case.                                                           *)
Mutant_CollectChild_ElseCloses(acc, child) ==
    IF child.k = "JSXElement" /\ is_switch_case_element(child)
    THEN IF extract_condition_from_attrs(child.attrs) # None
         THEN IF acc.else_case.k = "None"
              THEN [acc EXCEPT !.switch_cases =
                       Append(@, [condition |-> extract_condition_from_attrs(child.attrs),
                                  children |-> child.children])]
              ELSE acc
         ELSE IF has_else_attr(child.attrs)
              THEN [acc EXCEPT !.else_case = SomeChildren(child.children)]
              ELSE acc
    ELSE acc

(* One step of the loop of lines 315-325 on one child of the Switch:       *)
(* acc = [switch_cases, else_case].                                        *)
CollectChild(acc, child) ==
    IF child.k = "JSXElement" /\ is_switch_case_element(child)
    THEN IF extract_condition_from_attrs(child.attrs) # None
         THEN [acc EXCEPT !.switch_cases =
                  Append(@, [condition |-> extract_condition_from_attrs(child.attrs),
                             children |-> child.children])]
         ELSE IF has_else_attr(child.attrs)
              THEN [acc EXCEPT !.else_case = SomeChildren(child.children)]
              ELSE acc
    ELSE acc

RECURSIVE CollectFrom(_, _, _)
CollectFrom(children, i, acc) ==
    IF i > Len(children)
    THEN acc
    ELSE CollectFrom(children, i + 1, CollectChild(acc, children[i]))

(* The loop of lines 312-325: the normal branches in source order and the  *)
(* else branch.                                                            *)
CollectCases(children) ==
    CollectFrom(children, 1, [switch_cases |-> <<>>, else_case |-> None])

(* A branch's content in short-circuit assembly and in the else-only       *)
(* switch: the single non-whitespace child when it is an element,          *)
(* otherwise a fragment of the non-whitespace children (lines 496-518,     *)
(* 541-564, 350-437).                                                      *)
BranchContent(children) ==
    LET non_whitespace_children == filter_non_whitespace_children(children)
    IN  IF Len(non_whitespace_children) = 1
        THEN IF non_whitespace_children[1].k = "JSXElement"
             THEN non_whitespace_children[1]
             ELSE JSXFragment(<<non_whitespace_children[1]>>)
        ELSE JSXFragment(non_whitespace_children)

(* Lines 345-479: a Switch with an else branch and no normal branch.       *)
ElseOnlySwitch(else_children, ctx) ==
    LET content == BranchContent(else_children)
    IN  IF ctx \in {"Return", "Assignment"}
        THEN PlaceholderElement(content)
        ELSE IF content.k = "JSXElement"
             THEN content
             ELSE ReactFragmentElement(content.children)

(* A branch test that follows the rule of a Condition: coerced in          *)
(* Assignment context too.                                                 *)
Mutant_ShortCircuitTest(condition, ctx) == ConditionTest(condition, ctx)

(* The test of one branch of a short-circuit switch: lines 525-539.        *)
ShortCircuitTest(condition, ctx) ==
    IF ctx \in {"Return", "Assignment"} THEN condition ELSE BooleanCall(condition)

(* A loop that wraps from the first branch to the last, so that the first  *)
(* branch ends innermost.                                                  *)
RECURSIVE Mutant_ShortCircuitLoop(_, _, _, _)
Mutant_ShortCircuitLoop(switch_cases, n, result_expr, ctx) ==
    IF n = 0
    THEN result_expr
    ELSE Mutant_ShortCircuitLoop(switch_cases, n - 1,
             Cond(ShortCircuitTest(switch_cases[Len(switch_cases) - n + 1].condition, ctx),
                  BranchContent(switch_cases[Len(switch_cases) - n + 1].children),
                  result_expr),
             ctx)

(* The loop of lines 524-572, from the last branch to the first: branch n  *)
(* wraps what has been built so far as its false arm.                      *)
RECURSIVE ShortCircuitLoop(_, _, _, _)
ShortCircuitLoop(switch_cases, n, result_expr, ctx) ==
    IF n = 0
    THEN result_expr
    ELSE ShortCircuitLoop(switch_cases, n - 1,
             Cond(ShortCircuitTest(switch_cases[n].condition, ctx),
                  BranchContent(switch_cases[n].children),
                  result_expr),
             ctx)

create_short_circuit_switch(switch_cases, else_case, ctx) ==
    LET start == IF else_case.k = "Some"
                 THEN BranchContent(else_case.children)
                 ELSE NullLit
        result_expr == ShortCircuitLoop(switch_cases, Len(switch_cases), start, ctx)
    IN  PackageExpr(result_expr, ctx)

(* A parallel branch whose test is coerced with Boolean().                 *)
Mutant_ParallelBranch_Coerced(case) ==
    JSXExprContainer(Cond(BooleanCall(case.condition), JSXFragment(case.children), NullLit))

(* A parallel branch whose content is collapsed as in a chain.             *)
Mutant_ParallelBranch_Collapsed(case) ==
    JSXExprContainer(Cond(case.condition, BranchContent(case.children), NullLit))

(* One normal branch of a parallel switch: lines 629-646.                  *)
ParallelBranch(case) ==
    JSXExprContainer(Cond(case.condition, JSXFragment(case.children), NullLit))

(* A loop that puts each further negation in front of the conjunction.     *)
RECURSIVE Mutant_ElseGuardLoop(_, _, _)
Mutant_ElseGuardLoop(all_conditions, i, combined_condition) ==
    IF i > Len(all_conditions)
    THEN combined_condition
    ELSE Mutant_ElseGuardLoop(all_conditions, i + 1,
             Bin("&&", Unary("!", all_conditions[i]), combined_condition))

(* The loop of lines 670-683: !c1 && !c2 && ... built left to right.       *)
RECURSIVE ElseGuardLoop(_, _, _)
ElseGuardLoop(all_conditions, i, combined_condition) ==
    IF i > Len(all_conditions)
    THEN combined_condition
    ELSE ElseGuardLoop(all_conditions, i + 1,
             Bin("&&", combined_condition, Unary("!", all_conditions[i])))

(* An else guard that negates the first condition only.                    *)
Mutant_ElseCondition(all_conditions) ==
    IF all_conditions = <<>> THEN BoolLit(TRUE) ELSE Unary("!", all_conditions[1])

(* Lines 659-686. *)
ElseCondition(all_conditions) ==
    IF all_conditions = <<>>
    THEN BoolLit(TRUE)
    ELSE ElseGuardLoop(all_conditions, 2, Unary("!", all_conditions[1]))

create_parallel_switch(switch_cases, else_case) ==
    LET all_conditions == [i \in 1..Len(switch_cases) |-> switch_cases[i].condition]
        branches == [i \in 1..Len(switch_cases) |-> ParallelBranch(switch_cases[i])]
        else_children ==
            IF else_case.k = "Some"
            THEN <<JSXExprContainer(Cond(ElseCondition(all_conditions),
                                         JSXFragment(else_case.children),
                                         NullLit))>>
            ELSE <<>>
    IN  ReactFragmentElement(branches \o else_children)

(* A mode choice that ignores the number of branches and the else branch.  *)
Mutant_effective_short_circuit(short_circuit, ctx, switch_cases, else_case) ==
    short_circuit \/ ctx \in {"Return", "Assignment"}

(* Lines 484-485. *)
effective_short_circuit(short_circuit, ctx, switch_cases, else_case) ==
    \/ short_circuit
    \/ /\ ctx \in {"Return", "Assignment"}
       /\ Len(switch_cases) <= 1
       /\ else_case.k = "None"

create_switch_transformation(children, short_circuit, ctx) ==
    LET collected == CollectCases(children)
        switch_cases == collected.switch_cases
        else_case == collected.else_case
    IN  IF switch_cases = <<>> /\ else_case.k = "None"
        THEN ReactFragmentElement(<<>>)
        ELSE IF switch_cases = <<>>
        THEN ElseOnlySwitch(else_case.children, ctx)
        ELSE IF effective_short_circuit(short_circuit, ctx, switch_cases, else_case)
        THEN create_short_circuit_switch(switch_cases, else_case, ctx)
        ELSE create_parallel_switch(switch_cases, else_case)

-----------------------------------------------------------------------------
(* impl Fold for TransformVisitor.  ctx is self.current_context on entry;  *)
(* the result's c is self.current_context on exit.  A call self.fold_x(n)  *)
(* is written TV_fold("x", n, ctx): TV_fold, defined after the methods,    *)
(* dispatches to the method TV_fold_x.                                     *)

RECURSIVE TV_fold(_, _, _)


(* fold_jsx_element that folds the children of an element before it       *)
(* looks at the element's tag, so that the directives nested in a          *)
(* directive's children are rewritten before the directive itself.         *)
Mutant_fold_jsx_element(element, ctx) ==
    LET r == TV_fold("jsx_element_children", element.children, ctx)
    IN  IF /\ element.name.t = "Ident"
           /\ element.name.sym = CONDITION_TAG
           /\ extract_condition_from_attrs(element.attrs) # None
        THEN R(create_conditional_jsx(extract_condition_from_attrs(element.attrs),
                                      r.n, ctx), ctx)
        ELSE IF /\ element.name.t = "Ident"
                /\ element.name.sym = SWITCH_TAG
                /\ has_switch_case_children(element.children)
        THEN R(create_switch_transformation(r.n,
                                            extract_short_circuit_attr(element.attrs),
                                            ctx), ctx)
        ELSE R([element EXCEPT !.children = r.n], r.c)

(* fold_jsx_element that folds the children of a Condition, as template    *)
(* children, and hands the folded children to the rewrite.                 *)
Mutant_fold_jsx_element_FoldsCarried(element, ctx) ==
    IF /\ element.name.t = "Ident"
       /\ element.name.sym = CONDITION_TAG
       /\ extract_condition_from_attrs(element.attrs) # None
    THEN R(create_conditional_jsx(extract_condition_from_attrs(element.attrs),
                                  TV_fold("jsx_element_children", element.children, "Jsx").n,
                                  ctx), ctx)
    ELSE IF /\ element.name.t = "Ident"
            /\ element.name.sym = SWITCH_TAG
            /\ has_switch_case_children(element.children)
    THEN R(create_switch_transformation(element.children,
                                        extract_short_circuit_attr(element.attrs),
                                        ctx), ctx)
    ELSE LET r == TV_fold("jsx_element_children", element.children, ctx)
         IN  R([element EXCEPT !.children = r.n], r.c)

(* fold_jsx_element that hands the attributes of the directive on to the   *)
(* element the rewrite returns.                                            *)
Mutant_fold_jsx_element_KeepsAttrs(element, ctx) ==
    LET keep(r) == IF r.k = "JSXElement" THEN [r EXCEPT !.attrs = element.attrs] ELSE r
    IN  IF /\ element.name.t = "Ident"
           /\ element.name.sym = CONDITION_TAG
           /\ extract_condition_from_attrs(element.attrs) # None
        THEN R(keep(create_conditional_jsx(extract_condition_from_attrs(element.attrs),
                                           element.children, ctx)), ctx)
        ELSE IF /\ element.name.t = "Ident"
                /\ element.name.sym = SWITCH_TAG
                /\ has_switch_case_children(element.children)
        THEN R(keep(create_switch_transformation(element.children,
                                                 extract_short_circuit_attr(element.attrs),
                                                 ctx)), ctx)
        ELSE LET r == TV_fold("jsx_element_children", element.children, ctx)
             IN  R([element EXCEPT !.children = r.n], r.c)

(* Lines 72-89. *)
TV_fold_jsx_element(element, ctx) ==
    IF /\ element.name.t = "Ident"
       /\ element.name.sym = CONDITION_TAG
       /\ extract_condition_from_attrs(element.attrs) # None
    THEN R(create_conditional_jsx(extract_condition_from_attrs(element.attrs),
                                  element.children, ctx), ctx)
    ELSE IF /\ element.name.t = "Ident"
            /\ element.name.sym = SWITCH_TAG
            /\ has_switch_case_children(element.children)
    THEN R(create_switch_transformation(element.children,
                                        extract_short_circuit_attr(element.attrs),
                                        ctx), ctx)
    ELSE LET r == TV_fold("jsx_element_children", element.children, ctx)
         IN  R([element EXCEPT !.children = r.n], r.c)

(* with_jsx_context that does not set the Jsx context: the element is      *)
(* folded in the context it is met in.                                     *)
Mutant_with_jsx_context_element(element, ctx) ==
    TV_fold("jsx_element", element, ctx)

(* with_jsx_context, lines 298-309, around fold_jsx_element.               *)
TV_with_jsx_context_element(element, ctx) ==
    IF ctx = "Jsx"
    THEN TV_fold("jsx_element", element, ctx)
    ELSE R(TV_fold("jsx_element", element, "Jsx").n, ctx)

(* with_jsx_context around fold_jsx_fragment.                              *)
TV_with_jsx_context_fragment(fragment, ctx) ==
    IF ctx = "Jsx"
    THEN TV_fold("jsx_fragment", fragment, ctx)
    ELSE R(TV_fold("jsx_fragment", fragment, "Jsx").n, ctx)

(* with_jsx_context around container.expr.fold_with that does not set the  *)
(* Jsx context: the expression is folded in the context the container is   *)
(* met in.                                                                 *)
Mutant_with_jsx_context_jsx_expr(expr, ctx) ==
    TV_fold("jsx_expr", expr, ctx)

(* with_jsx_context around container.expr.fold_with.                       *)
TV_with_jsx_context_jsx_expr(expr, ctx) ==
    IF ctx = "Jsx"
    THEN TV_fold("jsx_expr", expr, ctx)
    ELSE R(TV_fold("jsx_expr", expr, "Jsx").n, ctx)

(* Lines 91-104. *)
TV_fold_jsx_element_child(child, ctx) ==
    CASE child.k = "JSXElement" -> TV_with_jsx_context_element(child, ctx)
      [] child.k = "JSXFragment" -> TV_with_jsx_context_fragment(child, ctx)
      [] child.k = "JSXExprContainer" -> TV_fold("jsx_expr_container", child, ctx)
      [] OTHER -> R(child, ctx)

(* Vec<JSXElementChild>::fold_with: the children in order.                 *)
TV_fold_jsx_element_children(children, ctx) ==
    IF children = <<>>
    THEN R(<<>>, ctx)
    ELSE LET h == TV_fold("jsx_element_child", Head(children), ctx)
             t == TV_fold("jsx_element_children", Tail(children), h.c)
         IN  R(<<h.n>> \o t.n, t.c)

(* Lines 106-109. *)
TV_fold_jsx_fragment(fragment, ctx) ==
    LET r == TV_fold("jsx_element_children", fragment.children, ctx)
    IN  R([fragment EXCEPT !.children = r.n], r.c)

(* Lines 111-114. *)
TV_fold_jsx_expr_container(container, ctx) ==
    LET r == TV_with_jsx_context_jsx_expr(container.expr, ctx)
    IN  R([container EXCEPT !.expr = r.n], r.c)

(* Lines 116-121. *)
TV_fold_jsx_expr(expr, ctx) ==
    IF expr.k = "JSXEmptyExpr" THEN R(expr, ctx) ELSE TV_fold("expr", expr, ctx)

(* fold_return_stmt without line 126: the context set on entry is left in   *)
(* place on exit.                                                          *)
Mutant_fold_return_stmt(stmt, ctx) ==
    LET r == TV_fold("opt_expr", stmt.arg, "Return")
    IN  R([stmt EXCEPT !.arg = r.n], r.c)

(* Lines 123-128. *)
TV_fold_return_stmt(stmt, ctx) ==
    LET prev_context == ctx
        r == TV_fold("opt_expr", stmt.arg, "Return")
    IN  R([stmt EXCEPT !.arg = r.n], prev_context)

(* Lines 130-135. *)
TV_fold_var_declarator(declarator, ctx) ==
    LET prev_context == ctx
        r == TV_fold("opt_expr", declarator.init, "Assignment")
    IN  R([declarator EXCEPT !.init = r.n], prev_context)

(* Lines 137-142: only the right-hand side is folded.                      *)
TV_fold_assign_expr(expr, ctx) ==
    LET prev_context == ctx
        r == TV_fold("expr", expr.right, "Assignment")
    IN  R([expr EXCEPT !.right = r.n], prev_context)

(* Lines 144-154. *)
TV_fold_expr(expr, ctx) ==
    CASE expr.k = "JSXElement" -> TV_fold("jsx_element", expr, ctx)
      [] expr.k = "JSXFragment" -> TV_fold("jsx_fragment", expr, ctx)
      [] OTHER -> TV_fold("children_with", expr, ctx)

TV_fold_opt_expr(opt, ctx) ==
    IF opt.k = "None" THEN R(opt, ctx) ELSE TV_fold("expr", opt, ctx)

TV_fold_exprs(exprs, ctx) ==
    IF exprs = <<>>
    THEN R(<<>>, ctx)
    ELSE LET h == TV_fold("expr", Head(exprs), ctx)
             t == TV_fold("exprs", Tail(exprs), h.c)
         IN  R(<<h.n>> \o t.n, t.c)

(* expr.fold_children_with(self), line 152: swc's generated fold of the    *)
(* children of every other expression, in field order.                     *)
TV_fold_children_with(expr, ctx) ==
    CASE expr.k = "Paren" ->
            LET r == TV_fold("expr", expr.expr, ctx)
            IN  R([expr EXCEPT !.expr = r.n], r.c)
      [] expr.k = "Cond" ->
            LET t == TV_fold("expr", expr.test, ctx)
                c == TV_fold("expr", expr.cons, t.c)
                a == TV_fold("expr", expr.alt, c.c)
            IN  R(Cond(t.n, c.n, a.n), a.c)
      [] expr.k = "Call" ->
            LET f == TV_fold("expr", expr.callee, ctx)
                a == TV_fold("exprs", expr.args, f.c)
            IN  R(Call(f.n, a.n), a.c)
      [] expr.k = "Unary" ->
            LET r == TV_fold("expr", expr.arg, ctx)
            IN  R([expr EXCEPT !.arg = r.n], r.c)
      [] expr.k = "Bin" ->
            LET l == TV_fold("expr", expr.left, ctx)
                r == TV_fold("expr", expr.right, l.c)
            IN  R([expr EXCEPT !.left = l.n, !.right = r.n], r.c)
      [] expr.k = "Assign" -> TV_fold("assign_expr", expr, ctx)
      [] expr.k = "Arrow" ->
            LET r == TV_fold("stmts", expr.body, ctx)
            IN  R([expr EXCEPT !.body = r.n], r.c)
      [] OTHER -> R(expr, ctx)

(* swc's generated fold of a statement.                                    *)
TV_fold_stmt(stmt, ctx) ==
    CASE stmt.k = "Return" -> TV_fold("return_stmt", stmt, ctx)
      [] stmt.k = "VarDecl" -> TV_fold("var_declarator", stmt, ctx)
      [] stmt.k = "ExprStmt" ->
            LET r == TV_fold("expr", stmt.expr, ctx)
            IN  R([stmt EXCEPT !.expr = r.n], r.c)
      [] OTHER -> R(stmt, ctx)

TV_fold_stmts(stmts, ctx) ==
    IF stmts = <<>>
    THEN R(<<>>, ctx)
    ELSE LET h == TV_fold("stmt", Head(stmts), ctx)
             t == TV_fold("stmts", Tail(stmts), h.c)
         IN  R(<<h.n>> \o t.n, t.c)

(* The dispatch of a call to one of TransformVisitor's fold methods.        *)
TV_fold(method, node, ctx) ==
    CASE method = "expr" -> TV_fold_expr(node, ctx)
      [] method = "exprs" -> TV_fold_exprs(node, ctx)
      [] method = "opt_expr" -> TV_fold_opt_expr(node, ctx)
      [] method = "children_with" -> TV_fold_children_with(node, ctx)
      [] method = "jsx_element" -> TV_fold_jsx_element(node, ctx)
      [] method = "jsx_element_child" -> TV_fold_jsx_element_child(node, ctx)
      [] method = "jsx_element_children" -> TV_fold_jsx_element_children(node, ctx)
      [] method = "jsx_fragment" -> TV_fold_jsx_fragment(node, ctx)
      [] method = "jsx_expr_container" -> TV_fold_jsx_expr_container(node, ctx)
      [] method = "jsx_expr" -> TV_fold_jsx_expr(node, ctx)
      [] method = "return_stmt" -> TV_fold_return_stmt(node, ctx)
      [] method = "var_declarator" -> TV_fold_var_declarator(node, ctx)
      [] method = "assign_expr" -> TV_fold_assign_expr(node, ctx)
      [] method = "stmt" -> TV_fold_stmt(node, ctx)
      [] method = "stmts" -> TV_fold_stmts(node, ctx)

-----------------------------------------------------------------------------
(* PostTransformVisitor.                                                   *)

(* A call self.fold_x(n) is written PTV_fold("x", n).                      *)

RECURSIVE unwrap_single_element_fragments(_)
RECURSIVE PTV_fold(_, _)

(* Lines 725-738: the true arm of one conditional of the chain.            *)
CollapseCons(cons) ==
    IF cons.k = "JSXFragment"
    THEN LET real == SelectSeq(cons.children, is_non_whitespace_child)
         IN  IF Len(real) = 1 /\ real[1].k = "JSXElement" THEN real[1] ELSE cons
    ELSE cons

(* Lines 722-746. *)
unwrap_single_element_fragments(expr) ==
    IF expr.k = "Cond"
    THEN Cond(expr.test, CollapseCons(expr.cons),
              unwrap_single_element_fragments(expr.alt))
    ELSE expr

(* Lines 753-771: does this element carry an expression as a placeholder   *)
(* does, i.e. is its first child an expression container holding an        *)
(* expression?                                                             *)
CarriesExpr(element) ==
    /\ element.children # <<>>
    /\ element.children[1].k = "JSXExprContainer"
    /\ element.children[1].expr.k # "JSXEmptyExpr"

(* An unwrapping that collapses single-element fragments for both          *)
(* placeholder tags.                                                       *)
Mutant_UnwrapPlaceholder(element) ==
    unwrap_single_element_fragments(element.children[1].expr)

(* An unwrapping that hands back the expression container, not the         *)
(* expression in it.                                                       *)
Mutant_UnwrapPlaceholder_Container(element) == element.children[1]

(* Lines 758 and 766: what replaces a placeholder element.                 *)
UnwrapPlaceholder(element) ==
    IF element.name.sym = CONDITION_PLACEHOLDER
    THEN element.children[1].expr
    ELSE unwrap_single_element_fragments(element.children[1].expr)

(* A rule that treats a fragment as it treats an element: parentheses      *)
(* only for more than one child or a text child with a newline.            *)
Mutant_needs_inner_parens(cons) ==
    IF cons.k \in {"JSXElement", "JSXFragment"}
    THEN \/ Len(cons.children) > 1
         \/ \E i \in 1..Len(cons.children) :
               /\ cons.children[i].k = "JSXText"
               /\ contains_newline(cons.children[i].value)
    ELSE FALSE

(* Lines 778-788. *)
needs_inner_parens(cons) ==
    CASE cons.k = "JSXElement" ->
            \/ Len(cons.children) > 1
            \/ \E i \in 1..Len(cons.children) :
                  /\ cons.children[i].k = "JSXText"
                  /\ contains_newline(cons.children[i].value)
      [] cons.k = "JSXFragment" -> TRUE
      [] OTHER -> FALSE

(* Lines 774-811: a parenthesized expression, given its folded inner       *)
(* expression.                                                             *)
FoldParen(inner) ==
    IF inner.k = "Cond"
    THEN IF needs_inner_parens(inner.cons)
         THEN [inner EXCEPT !.cons = Paren(inner.cons)]
         ELSE inner
    ELSE Paren(inner)

(* fold_jsx_element that folds the attribute values too, as swc's          *)
(* generated fold of an element does.                                      *)
Mutant_PTV_fold_jsx_element(element) ==
    [element EXCEPT
        !.children =
            [i \in 1..Len(element.children) |-> PTV_fold("jsx_element_child", element.children[i])],
        !.attrs =
            [i \in 1..Len(element.attrs) |->
                IF /\ element.attrs[i].t = "JSXAttr"
                   /\ element.attrs[i].aval.k = "JSXExprContainer"
                   /\ element.attrs[i].aval.expr.k # "JSXEmptyExpr"
                THEN [element.attrs[i] EXCEPT !.aval.expr = PTV_fold("expr", @)]
                ELSE element.attrs[i]]]

(* Lines 818-821. *)
PTV_fold_jsx_element(element) ==
    [element EXCEPT !.children =
        [i \in 1..Len(element.children) |-> PTV_fold("jsx_element_child", element.children[i])]]

(* swc's generated fold of a JSX child: every kind is folded.              *)
PTV_fold_jsx_element_child(child) ==
    CASE child.k = "JSXElement" -> PTV_fold("jsx_element", child)
      [] child.k = "JSXFragment" ->
            [child EXCEPT !.children =
                [i \in 1..Len(child.children) |-> PTV_fold("jsx_element_child", child.children[i])]]
      [] child.k = "JSXExprContainer" ->
            IF child.expr.k = "JSXEmptyExpr"
            THEN child
            ELSE [child EXCEPT !.expr = PTV_fold("expr", child.expr)]
      [] child.k = "JSXSpreadChild" -> [child EXCEPT !.expr = PTV_fold("expr", child.expr)]
      [] OTHER -> child

PTV_fold_exprs(exprs) == [i \in 1..Len(exprs) |-> PTV_fold("expr", exprs[i])]

(* Lines 750-814. *)
PTV_fold_expr(expr) ==
    CASE expr.k = "JSXElement" ->
            IF /\ expr.name.t = "Ident"
               /\ expr.name.sym \in {CONDITION_PLACEHOLDER, SWITCH_PLACEHOLDER}
               /\ CarriesExpr(expr)
            THEN UnwrapPlaceholder(expr)
            ELSE PTV_fold("jsx_element", expr)
      [] expr.k = "Paren" -> FoldParen(PTV_fold("expr", expr.expr))
      [] expr.k = "JSXFragment" ->
            [expr EXCEPT !.children =
                [i \in 1..Len(expr.children) |-> PTV_fold("jsx_element_child", expr.children[i])]]
      [] expr.k = "Cond" ->
            Cond(PTV_fold("expr", expr.test), PTV_fold("expr", expr.cons), PTV_fold("expr", expr.alt))
      [] expr.k = "Call" -> Call(PTV_fold("expr", expr.callee), PTV_fold("exprs", expr.args))
      [] expr.k = "Unary" -> [expr EXCEPT !.arg = PTV_fold("expr", expr.arg)]
      [] expr.k = "Bin" ->
            [expr EXCEPT !.left = PTV_fold("expr", expr.left), !.right = PTV_fold("expr", expr.right)]
      [] expr.k = "Assign" ->
            [expr EXCEPT !.left = PTV_fold("expr", expr.left), !.right = PTV_fold("expr", expr.right)]
      [] expr.k = "Arrow" ->
            [expr EXCEPT !.body = [i \in 1..Len(expr.body) |-> PTV_fold("stmt", expr.body[i])]]
      [] OTHER -> expr

(* swc's generated fold of a statement.                                    *)
PTV_fold_stmt(stmt) ==
    CASE stmt.k = "Return" ->
            IF stmt.arg.k = "None" THEN stmt ELSE [stmt EXCEPT !.arg = PTV_fold("expr", stmt.arg)]
      [] stmt.k = "VarDecl" ->
            IF stmt.init.k = "None" THEN stmt ELSE [stmt EXCEPT !.init = PTV_fold("expr", stmt.init)]
      [] stmt.k = "ExprStmt" -> [stmt EXCEPT !.expr = PTV_fold("expr", stmt.expr)]
      [] OTHER -> stmt

(* The dispatch of a call to one of PostTransformVisitor's fold methods.   *)
PTV_fold(method, node) ==
    CASE method = "expr" -> PTV_fold_expr(node)
      [] method = "exprs" -> PTV_fold_exprs(node)
      [] method = "jsx_element" -> PTV_fold_jsx_element(node)
      [] method = "jsx_element_child" -> PTV_fold_jsx_element_child(node)
      [] method = "stmt" -> PTV_fold_stmt(node)

-----------------------------------------------------------------------------
(* process_transform, lines 824-828: the program is a sequence of          *)
(* statements; TransformVisitor::default() starts in the Jsx context.      *)

DefaultContext == "Jsx"

TransformProgram(program) == TV_fold("stmts", program, DefaultContext)

PostTransformProgram(program) == [i \in 1..Len(program) |-> PTV_fold("stmt", program[i])]

-----------------------------------------------------------------------------
(* The input programs.  A program is one statement `slot(wrap*(core))`: a  *)
(* core expression (a directive or an ordinary expression), wrapped in at  *)
(* most MaxWrap enclosing expressions, in a statement.                     *)

MaxWrap == 1
MaxCases == 2

WS == JSXText(<<"nl", "sp">>)
TXT == JSXText(<<"x">>)
NLTXT == JSXText(<<"nl", "x", "nl">>)
EL(s) == JSXElement(NameIdent(s), <<>>, <<>>)
ELc(s, cs) == JSXElement(NameIdent(s), <<>>, cs)

IfExpr(c) == JSXAttr(NameIdent(IF_ATTR), JSXExprContainer(c))
IfBare == JSXAttr(NameIdent(IF_ATTR), None)
IfStr == JSXAttr(NameIdent(IF_ATTR), Str("s"))
IfEmpty == JSXAttr(NameIdent(IF_ATTR), JSXExprContainer(JSXEmptyExpr))
ElseBare == JSXAttr(NameIdent(ELSE_ATTR), None)
ShortCircuitBare == JSXAttr(NameIdent(SHORT_CIRCUIT_ATTR), None)
KeyAttr == JSXAttr(NameIdent("key"), JSXExprContainer(Ident("k")))

ConditionEl(as, cs) == JSXElement(NameIdent(CONDITION_TAG), as, cs)
SwitchEl(as, cs) == JSXElement(NameIdent(SWITCH_TAG), as, cs)
CaseEl(as, cs) == JSXElement(NameMember("Switch", "Case"), as, cs)

(* A directive as it occurs nested in the children of another.             *)
InnerCondition == ConditionEl(<<IfExpr(Ident("b"))>>, <<EL("q")>>)
InnerSwitch == SwitchEl(<<>>, <<CaseEl(<<IfExpr(Ident("b"))>>, <<EL("q")>>)>>)

(* The children of a directive or of a branch.                             *)
Contents ==
    { <<>>, <<WS>>, <<EL("p")>>, <<WS, EL("p"), WS>>, <<TXT>>, <<NLTXT>>,
      <<EL("p"), WS, EL("q")>>, <<JSXExprContainer(Ident("v"))>>,
      <<InnerCondition>>, <<WS, ELc("div", <<InnerSwitch>>), TXT>> }

(* The attribute lists of a Condition element.                             *)
ConditionAttrs ==
    { <<IfExpr(Ident("a"))>>, <<>>, <<IfBare>>, <<IfStr>>, <<IfEmpty>>,
      <<KeyAttr, IfBare, IfExpr(Ident("a"))>>,
      <<SpreadElement(Ident("props"))>> }

Conditions == { ConditionEl(as, cs) : as \in ConditionAttrs, cs \in Contents }

(* Expressions with no directive in them except as given.                  *)
PlaceholderInputs ==
    { JSXElement(NameIdent(nm), <<>>, cs) :
        nm \in {CONDITION_PLACEHOLDER, SWITCH_PLACEHOLDER},
        cs \in { <<>>, <<EL("p")>>,
                 <<JSXExprContainer(Cond(Ident("a"), JSXFragment(<<WS, EL("p")>>), NullLit))>>,
                 <<JSXExprContainer(JSXEmptyExpr)>>,
                 <<JSXExprContainer(Arrow(<<ReturnStmt(InnerCondition)>>))>> } }

OrdinaryExprs ==
    { Ident("v"), EL("p"), ELc("div", <<WS, EL("p"), TXT>>), ELc("p", <<NLTXT>>),
      JSXFragment(<<EL("p"), EL("q")>>),
      Cond(Ident("a"), EL("p"), NullLit),
      Paren(Cond(Ident("a"), Ident("v"), NullLit)),
      Paren(Cond(Ident("a"), EL("p"), NullLit)),
      Paren(Cond(Ident("a"), ELc("p", <<NLTXT>>), NullLit)),
      Paren(Cond(Ident("a"), JSXFragment(<<EL("p")>>), NullLit)),
      Paren(Cond(Ident("a"), ELc("div", <<EL("p"), EL("q")>>), NullLit)),
      Arrow(<<VarDeclarator("z", InnerCondition), ReturnStmt(InnerSwitch)>>),
      JSXElement(NameMember("Switch", "Case"), <<IfExpr(Ident("a"))>>, <<EL("p")>>),
      JSXElement(NameMember("Foo", "Case"), <<>>, <<EL("p")>>) }

(* The k-th condition of a switch.                                         *)
CaseCondition(i) == Ident(<<"c1", "c2", "c3", "c4">>[i])

(* A few switches for the general programs.                                *)
SimpleSwitches ==
    { SwitchEl(as, cs) :
        as \in { <<>>, <<ShortCircuitBare>> },
        cs \in { <<>>, <<EL("p"), EL("q")>>,
                 <<CaseEl(<<>>, <<EL("p")>>)>>,
                 <<CaseEl(<<IfExpr(CaseCondition(1))>>, <<WS, EL("p"), WS>>)>>,
                 <<CaseEl(<<IfExpr(CaseCondition(1))>>, <<EL("p"), WS, EL("q")>>),
                   WS,
                   CaseEl(<<ElseBare>>, <<InnerCondition>>)>>,
                 <<CaseEl(<<ElseBare>>, <<EL("p")>>)>>,
                 <<CaseEl(<<IfExpr(CaseCondition(1))>>, <<InnerCondition>>),
                   CaseEl(<<IfExpr(CaseCondition(2))>>, <<EL("q")>>)>> } }

(* A Switch whose element and cases carry a `key` attribute each.         *)
KeyedSwitch ==
    SwitchEl(<<KeyAttr>>,
             <<CaseEl(<<KeyAttr, IfExpr(CaseCondition(1))>>, <<EL("p")>>),
               CaseEl(<<ElseBare, KeyAttr>>, <<EL("q")>>)>>)

Cores ==
    Conditions \cup SimpleSwitches \cup {KeyedSwitch} \cup OrdinaryExprs \cup PlaceholderInputs

(* A JSX child holding the expression e.                                   *)
AsChild(e) == IF e.k \in {"JSXElement", "JSXFragment"} THEN e ELSE JSXExprContainer(e)

(* The enclosing expressions.                                              *)
WrapKinds == {"paren", "child", "container", "attr", "arrow", "cond", "assign", "spread"}

Wrap(w, e) ==
    CASE w = "paren" -> Paren(e)
      [] w = "child" -> ELc("div", <<WS, AsChild(e)>>)
      [] w = "container" -> JSXFragment(<<JSXExprContainer(e)>>)
      [] w = "attr" -> JSXElement(NameIdent("div"), <<JSXAttr(NameIdent("x"), JSXExprContainer(e))>>, <<>>)
      [] w = "arrow" -> Arrow(<<ReturnStmt(e)>>)
      [] w = "cond" -> Cond(Ident("t"), e, NullLit)
      [] w = "assign" -> Assign(Ident("y"), e)
      [] w = "spread" -> ELc("div", <<JSXSpreadChild(e)>>)

(* The wrap sequences of length at most MaxWrap, innermost first.          *)
WrapSeqs == UNION { [1..n -> WrapKinds] : n \in 0..MaxWrap }

RECURSIVE ApplyWraps(_, _, _)
ApplyWraps(ws, i, e) ==
    IF i > Len(ws) THEN e ELSE ApplyWraps(ws, i + 1, Wrap(ws[i], e))

(* The statements an expression can sit in.                                *)
SlotKinds == {"return", "var", "stmt"}

Slot(s, e) ==
    CASE s = "return" -> ReturnStmt(e)
      [] s = "var" -> VarDeclarator("x", e)
      [] s = "stmt" -> ExprStmt(e)

(* A few programs of other shapes: a statement without an expression, two *)
(* statements, a Condition around a parenthesized conditional.             *)
OtherPrograms ==
    { <<ReturnStmt(None)>>, <<VarDeclarator("x", None)>>,
      <<VarDeclarator("x", InnerCondition), ReturnStmt(InnerSwitch)>>,
      <<ReturnStmt(ConditionEl(<<IfExpr(Ident("a"))>>,
                               <<JSXExprContainer(Paren(Cond(Ident("b"), EL("q"), NullLit)))>>))>> }

IsProgram(p) ==
    \/ \E s \in SlotKinds, ws \in WrapSeqs, e \in Cores :
          p = <<Slot(s, ApplyWraps(ws, 1, e))>>
    \/ p \in OtherPrograms

-----------------------------------------------------------------------------
(* The switch programs: one Switch of at most MaxCases children and an     *)
(* optional closing `else` case, as a statement's expression or as the     *)
(* child of an element.  The k-th child is a Switch.Case with `if={ck}`,   *)
(* with `else`, with both, with neither, or an ordinary element; a case's  *)
(* content carries the marker of its position, as an element's name or as  *)
(* a text, so that the output tells the branches apart.                    *)

Marker(k) == <<"m1", "m2", "m3", "m4">>[k]

Shape(k, sh) ==
    CASE sh = "one" -> <<EL(Marker(k))>>
      [] sh = "padded" -> <<WS, EL(Marker(k)), WS>>
      [] sh = "two" -> <<EL(Marker(k)), WS, EL("q")>>
      [] sh = "text" -> <<JSXText(<<Marker(k)>>)>>
      [] sh = "blank" -> <<WS>>

ShapeKinds == {"one", "padded", "two", "text", "blank"}

(* What can stand at a position of a Switch's children: nothing, an        *)
(* ordinary element, or a Switch.Case of some kind and content.            *)
SwitchOptions ==
    ({"if", "else", "none"} \X ShapeKinds)
    \cup { <<"absent", "one">>, <<"junk", "one">>, <<"both", "one">> }

SwitchChild(k, o) ==
    CASE o[1] = "if" -> <<CaseEl(<<IfExpr(CaseCondition(k))>>, Shape(k, o[2]))>>
      [] o[1] = "else" -> <<CaseEl(<<ElseBare>>, Shape(k, o[2]))>>
      [] o[1] = "both" -> <<CaseEl(<<ElseBare, IfExpr(CaseCondition(k))>>, Shape(k, o[2]))>>
      [] o[1] = "none" -> <<CaseEl(<<KeyAttr>>, Shape(k, o[2]))>>
      [] o[1] = "junk" -> <<ELc("div", Shape(k, o[2]))>>
      [] o[1] = "absent" -> <<>>

RECURSIVE SwitchChildren(_, _)
SwitchChildren(choice, k) ==
    IF k > Len(choice)
    THEN <<>>
    ELSE SwitchChild(k, choice[k]) \o SwitchChildren(choice, k + 1)

SwitchAttrs == { <<>>, <<ShortCircuitBare>>, <<KeyAttr>> }

(* The positions of a Switch's children.                                   *)
Positions == 1..MaxCases

(* The closing child of a Switch: none, or an `else` case.                 *)
TailKinds == {"absent", "else"}

TailChild(tail) ==
    IF tail = "else"
    THEN <<WS, CaseEl(<<ElseBare>>, Shape(MaxCases + 1, "padded"))>>
    ELSE <<>>

SwitchInput(as, choice, tail) ==
    SwitchEl(as, <<WS>> \o SwitchChildren(choice, 1) \o TailChild(tail))

IsSwitchProgram(p) ==
    \E s \in SlotKinds, child \in BOOLEAN, as \in SwitchAttrs, tail \in TailKinds :
      \E choice \in [Positions -> SwitchOptions] :
          /\ child => s = "return"
          /\ p = <<Slot(s, IF child
                           THEN Wrap("child", SwitchInput(as, choice, tail))
                           ELSE SwitchInput(as, choice, tail))>>

-----------------------------------------------------------------------------
(* The state machine: process_transform applies the two folds in order.    *)

TypeOK == pc \in {"parsed", "transformed", "done"}

Init ==
    /\ pc = "parsed"
    /\ IsProgram(input)
    /\ mid = <<>>
    /\ out = <<>>
    /\ ctxAfter = DefaultContext

(* Line 826: program.fold_with(&mut TransformVisitor::default())           *)
RunTransformVisitor ==
    /\ pc = "parsed"
    /\ mid' = TransformProgram(input).n
    /\ ctxAfter' = TransformProgram(input).c
    /\ pc' = "transformed"
    /\ UNCHANGED <<input, out>>

(* Line 827: transformed.fold_with(&mut PostTransformVisitor)              *)
RunPostTransformVisitor ==
    /\ pc = "transformed"
    /\ out' = PostTransformProgram(mid)
    /\ pc' = "done"
    /\ UNCHANGED <<input, mid, ctxAfter>>

Next == RunTransformVisitor \/ RunPostTransformVisitor

Spec == Init /\ [][Next]_vars

(* Lines 824-828: process_transform is straight-line code, the second fold  *)
(* is called on what the first returned and nothing else runs in between,  *)
(* so the position in process_transform moves on whenever it is not at the *)
(* end.                                                                    *)
process_transform ==
    /\ pc \in {"parsed", "transformed"}
    /\ pc' = IF pc = "parsed" THEN "transformed" ELSE "done"

FairSpec == Init /\ [][Next]_vars /\ WF_pc(process_transform)

(* The same machine started on a switch program.                           *)
InitSwitch ==
    /\ pc = "parsed"
    /\ IsSwitchProgram(input)
    /\ mid = <<>>
    /\ out = <<>>
    /\ ctxAfter = DefaultContext

SpecSwitch == InitSwitch /\ [][Next]_vars

-----------------------------------------------------------------------------
(* What the claims speak of: the nodes of a tree, the directives.          *)

Range(f) == { f[i] : i \in DOMAIN f }

(* The nodes held by an attribute: its value, or the spread expression.    *)
AttrNodes(attr) == IF attr.t = "JSXAttr" THEN {attr.aval} ELSE {attr.expr}

(* The nodes directly below a node, attribute values included.             *)
Below(x) ==
    CASE x.k = "JSXElement" -> Range(x.children) \cup UNION { AttrNodes(a) : a \in Range(x.attrs) }
      [] x.k = "JSXFragment" -> Range(x.children)
      [] x.k \in {"JSXExprContainer", "JSXSpreadChild", "Paren", "ExprStmt"} -> {x.expr}
      [] x.k = "Cond" -> {x.test, x.cons, x.alt}
      [] x.k = "Call" -> {x.callee} \cup Range(x.args)
      [] x.k = "Unary" -> {x.arg}
      [] x.k \in {"Bin", "Assign"} -> {x.left, x.right}
      [] x.k = "Arrow" -> Range(x.body)
      [] x.k = "Return" -> {x.arg}
      [] x.k = "VarDecl" -> {x.init}
      [] OTHER -> {}

(* Every node of the tree x, x included.                                   *)
RECURSIVE Sub(_)
Sub(x) == {x} \cup UNION { Sub(y) : y \in Below(x) }

(* Every node of a program.                                                *)
Nodes(program) == UNION { Sub(program[i]) : i \in 1..Len(program) }

Elements(program) == { x \in Nodes(program) : x.k = "JSXElement" }

IsPlaceholder(x) ==
    /\ x.k = "JSXElement"
    /\ x.name.t = "Ident"
    /\ x.name.sym \in {CONDITION_PLACEHOLDER, SWITCH_PLACEHOLDER}

HasPlaceholder(program) == \E x \in Nodes(program) : IsPlaceholder(x)

(* A Condition element that meets its contract: an `if={expr}` attribute.  *)
IsConditionDirective(x) ==
    /\ x.k = "JSXElement"
    /\ x.name.t = "Ident"
    /\ x.name.sym = CONDITION_TAG
    /\ \E i \in 1..Len(x.attrs) : AttrHasExpr(x.attrs[i], IF_ATTR)

(* A Switch element that meets its contract: a Switch.Case child.          *)
IsSwitchDirective(x) ==
    /\ x.k = "JSXElement"
    /\ x.name.t = "Ident"
    /\ x.name.sym = SWITCH_TAG
    /\ \E i \in 1..Len(x.children) :
          /\ x.children[i].k = "JSXElement"
          /\ x.children[i].name = NameMember("Switch", "Case")

IsDirective(x) == IsConditionDirective(x) \/ IsSwitchDirective(x)

-----------------------------------------------------------------------------
(* C1.  No placeholder leakage: after both folds no element tagged         *)
(* __CONDITION_PLACEHOLDER__ or __SWITCH_PLACEHOLDER__ occurs in the       *)
(* output, for every input tree.  This is the claim as made; it fails on   *)
(* an input that itself holds an element with a placeholder tag.           *)
C1_NoPlaceholderAnyInput == pc = "done" => ~HasPlaceholder(out)

(* C1 as amended: for every input tree that holds no element with a        *)
(* placeholder tag, no element with a placeholder tag occurs in the output *)
(* of the two folds.                                                       *)
C1_NoPlaceholderLeak ==
    (pc = "done" /\ ~HasPlaceholder(input)) => ~HasPlaceholder(out)

(* A run in which the first fold made a placeholder and the second         *)
(* removed it.                                                             *)
C1_Witness ==
    /\ pc = "done"
    /\ ~HasPlaceholder(input)
    /\ HasPlaceholder(mid)
    /\ ~HasPlaceholder(out)

-----------------------------------------------------------------------------
(* An element tagged Condition, Switch or Switch.Case, whatever its        *)
(* attributes and children.                                                *)
HasDirectiveTag(x) ==
    /\ x.k = "JSXElement"
    /\ \/ x.name = NameIdent(CONDITION_TAG)
       \/ x.name = NameIdent(SWITCH_TAG)
       \/ x.name = NameMember("Switch", "Case")

DirectiveFree(program) == \A x \in Nodes(program) : ~HasDirectiveTag(x)

(* C2.  Idempotent no-op: for every input tree with no Condition, Switch   *)
(* or Switch.Case element, the output of the first fold equals the input   *)
(* and the output of the second fold equals the input; parenthesized and   *)
(* conditional expressions of the source are neither added, removed nor    *)
(* changed.  The second fold breaks it: it removes the parentheses around  *)
(* a conditional expression of the source.                                 *)
C2_DirectiveFreeUnchanged ==
    (pc = "done" /\ DirectiveFree(input)) => (mid = input /\ out = input)

-----------------------------------------------------------------------------
(* The nodes below x that TransformVisitor folds: not the attributes of an *)
(* element, not a spread child, not the left side of an assignment.        *)
Visited(x) ==
    CASE x.k \in {"JSXElement", "JSXFragment"} ->
            { c \in Range(x.children) : c.k # "JSXSpreadChild" }
      [] x.k = "Assign" -> {x.right}
      [] OTHER -> Below(x)

(* The nodes of the tree x that TransformVisitor folds: it does not go     *)
(* below a directive, which it replaces.                                   *)
RECURSIVE Folded(_)
Folded(x) ==
    {x} \cup (IF IsDirective(x) THEN {} ELSE UNION { Folded(y) : y \in Visited(x) })

FoldedIn(program) == UNION { Folded(program[i]) : i \in 1..Len(program) }

(* The directives of the tree x that TransformVisitor meets and replaces:  *)
(* the outermost directives on the paths it folds.                         *)
Rewritten(x) == { d \in Folded(x) : IsDirective(d) }

RewrittenIn(program) == UNION { Rewritten(program[i]) : i \in 1..Len(program) }

IsIfCase(c) ==
    /\ c.k = "JSXElement"
    /\ c.name = NameMember("Switch", "Case")
    /\ \E i \in 1..Len(c.attrs) : AttrHasExpr(c.attrs[i], IF_ATTR)

IsElseCase(c) ==
    /\ c.k = "JSXElement"
    /\ c.name = NameMember("Switch", "Case")
    /\ ~IsIfCase(c)
    /\ \E i \in 1..Len(c.attrs) : AttrNamed(c.attrs[i], ELSE_ATTR)

(* The children a rewritten directive hands on to its output: those of a   *)
(* Condition; those of a Switch's `if` branches and of its last `else`     *)
(* branch.                                                                 *)
Carried(d) ==
    IF IsConditionDirective(d)
    THEN Range(d.children)
    ELSE UNION { Range(d.children[i].children) :
                   i \in { j \in 1..Len(d.children) :
                             \/ IsIfCase(d.children[j])
                             \/ /\ IsElseCase(d.children[j])
                                /\ \A m \in (j + 1)..Len(d.children) :
                                      ~IsElseCase(d.children[m]) } }

(* The directives nested, at any depth, in the carried children of d.      *)
NestedDirectives(d) ==
    { n \in UNION { Sub(y) : y \in Carried(d) } : IsDirective(n) }

-----------------------------------------------------------------------------
(* The condition of a Condition directive: the expression of its first     *)
(* `if={expr}` attribute.                                                  *)
IfOf(x) ==
    x.attrs[CHOOSE i \in 1..Len(x.attrs) :
               /\ AttrHasExpr(x.attrs[i], IF_ATTR)
               /\ \A j \in 1..(i - 1) : ~AttrHasExpr(x.attrs[j], IF_ATTR)].aval.expr

(* Boolean(c) ? <>children</> : null, and the same with the bare test.     *)
CoercedConditional(d) ==
    Cond(Call(Ident("Boolean"), <<IfOf(d)>>), JSXFragment(d.children), NullLit)

BareConditional(d) == Cond(IfOf(d), JSXFragment(d.children), NullLit)

(* C4.  Context sensitivity of a Condition with `if={expr}`.  As the child *)
(* of an element it becomes a React.Fragment element whose only child is   *)
(* an expression container holding Boolean(expr) ? <>children</> : null;   *)
(* as a variable initializer or the right-hand side of an assignment the   *)
(* output after both folds is the bare Boolean(expr) ? <>children</> :     *)
(* null; as a return operand it is expr ? <>children</> : null, the test   *)
(* not coerced.                                                            *)
C4_ContextSensitivity ==
    pc = "done" =>
        /\ \A i \in 1..Len(input) :
              /\ (input[i].k = "Return" /\ IsConditionDirective(input[i].arg)) =>
                    out[i] = [k |-> "Return", arg |-> BareConditional(input[i].arg)]
              /\ (input[i].k = "VarDecl" /\ IsConditionDirective(input[i].init)) =>
                    out[i] = [input[i] EXCEPT !.init = CoercedConditional(input[i].init)]
              /\ ( /\ input[i].k = "ExprStmt"
                   /\ input[i].expr.k = "Assign"
                   /\ IsConditionDirective(input[i].expr.right) ) =>
                    out[i] = [input[i] EXCEPT
                                 !.expr.right = CoercedConditional(input[i].expr.right)]
        /\ \A e \in FoldedIn(input) :
              (e.k = "JSXElement" /\ ~IsDirective(e)) =>
                 \A j \in 1..Len(e.children) :
                    IsConditionDirective(e.children[j]) =>
                    \E f \in Elements(mid) \cap Elements(out) :
                        /\ f.name = e.name
                        /\ Len(f.children) = Len(e.children)
                        /\ f.children[j] =
                              [k |-> "JSXElement",
                               name |-> [t |-> "Ident", sym |-> "React.Fragment"],
                               attrs |-> <<>>,
                               children |-> <<JSXExprContainer(
                                                 CoercedConditional(e.children[j]))>>]

C4_Witness ==
    /\ pc = "done"
    /\ input[1].k = "Return"
    /\ IsConditionDirective(input[1].arg)
    /\ input[1].arg.children # <<>>
    /\ out[1].arg.k = "Cond"
    /\ out[1].arg.test = IfOf(input[1].arg)
    /\ out[1].arg.cons.k = "JSXFragment"

(* The only non-whitespace child of a list of children when it is an       *)
(* element; None otherwise.                                                *)
OnlyElement(children) ==
    LET real == SelectSeq(children, LAMBDA c : ~(c.k = "JSXText" /\ trim_is_empty(c.value)))
    IN  IF Len(real) = 1 /\ real[1].k = "JSXElement" THEN real[1] ELSE None

(* A program that returns a Condition directive with such children.        *)
IsSingleElementReturn(program) ==
    /\ Len(program) = 1
    /\ program[1].k = "Return"
    /\ IsConditionDirective(program[1].arg)
    /\ OnlyElement(program[1].arg.children) # None

(* C5 as claimed.  A Condition with `if={c}` as a return operand whose     *)
(* only non-whitespace child is one element E gives c ? E : null: the test *)
(* not coerced, the true arm the bare element E without a fragment around  *)
(* it.                                                                     *)
C5_BareElementArm ==
    (pc = "done" /\ IsSingleElementReturn(input)) =>
        /\ out[1].arg.k = "Cond"
        /\ out[1].arg.test = IfOf(input[1].arg)
        /\ out[1].arg.cons = OnlyElement(input[1].arg.children)
        /\ out[1].arg.alt = NullLit

(* C5 as the code has it.  For that Condition the output is                *)
(* c ? <>children</> : null: the test is the condition, not coerced, and   *)
(* the true arm is a fragment that holds all the children of the           *)
(* Condition, white-space texts included, E among them; the fragment is    *)
(* not removed by the second fold.                                         *)
C5_FragmentArmKept ==
    (pc = "done" /\ IsSingleElementReturn(input)) =>
        /\ out[1].arg.k = "Cond"
        /\ out[1].arg.test = IfOf(input[1].arg)
        /\ out[1].arg.cons.k = "JSXFragment"
        /\ out[1].arg.cons.children = input[1].arg.children
        /\ out[1].arg.cons # OnlyElement(input[1].arg.children)
        /\ out[1].arg.alt = NullLit

C5_Witness ==
    /\ pc = "done"
    /\ IsSingleElementReturn(input)
    /\ Len(input[1].arg.children) > 1
    /\ out[1].arg.k = "Cond"
    /\ out[1].arg.cons.k = "JSXFragment"
    /\ OnlyElement(out[1].arg.cons.children) = OnlyElement(input[1].arg.children)

-----------------------------------------------------------------------------
(* The switch programs: the Switch of the input, its place, its result.    *)

(* The expression of a statement.                                          *)
StmtExpr(stmt) ==
    CASE stmt.k = "Return" -> stmt.arg
      [] stmt.k = "VarDecl" -> stmt.init
      [] stmt.k = "ExprStmt" -> stmt.expr

(* Is the Switch of the switch program the child of an element?            *)
IsTemplateChild(program) == StmtExpr(program[1]).name # NameIdent(SWITCH_TAG)

(* The Switch element of a switch program.                                 *)
SwitchOf(program) ==
    IF IsTemplateChild(program)
    THEN StmtExpr(program[1]).children[2]
    ELSE StmtExpr(program[1])

(* What stands, in a fold's output, where the Switch of the input stood.   *)
ResultAt(program, tree) ==
    IF IsTemplateChild(program)
    THEN StmtExpr(tree[1]).children[2]
    ELSE StmtExpr(tree[1])

(* The context TransformVisitor is in when it meets the Switch.            *)
ContextOf(program) ==
    IF IsTemplateChild(program)
    THEN "Jsx"
    ELSE CASE program[1].k = "Return" -> "Return"
           [] program[1].k = "VarDecl" -> "Assignment"
           [] program[1].k = "ExprStmt" -> "Jsx"

(* The normal branches and the else branches of a Switch, in source order. *)
NormalBranches(sw) == SelectSeq(sw.children, IsIfCase)

ElseBranches(sw) == SelectSeq(sw.children, IsElseCase)

HasShortCircuitFlag(sw) ==
    \E i \in 1..Len(sw.attrs) : AttrNamed(sw.attrs[i], SHORT_CIRCUIT_ATTR)

(* The mode of the rule: the flag, or Return / Assignment context with at  *)
(* most one normal branch and no else branch.                              *)
ExpectShortCircuit(program) ==
    \/ HasShortCircuitFlag(SwitchOf(program))
    \/ /\ ContextOf(program) \in {"Return", "Assignment"}
       /\ Len(NormalBranches(SwitchOf(program))) <= 1
       /\ ElseBranches(SwitchOf(program)) = <<>>

(* The branches as the two assemblies take them.                           *)
CasesOf(sw) ==
    [i \in 1..Len(NormalBranches(sw)) |->
        [condition |-> IfOf(NormalBranches(sw)[i]),
         children |-> NormalBranches(sw)[i].children]]

ElseOf(sw) ==
    IF ElseBranches(sw) = <<>>
    THEN None
    ELSE SomeChildren(ElseBranches(sw)[Len(ElseBranches(sw))].children)

(* C6.  The choice of assembly for a Switch with at least one normal       *)
(* branch: short-circuit if and only if the shortCircuit attribute is      *)
(* present, or the context is Return or Assignment and there is at most    *)
(* one normal branch and no else branch; parallel in every other case.     *)
(* The two assemblies never give the same result, so the result tells the  *)
(* mode.                                                                   *)
C6_ModeChoice ==
    (pc = "done" /\ Len(NormalBranches(SwitchOf(input))) >= 1) =>
        LET sw == SwitchOf(input)
            short == create_short_circuit_switch(CasesOf(sw), ElseOf(sw), ContextOf(input))
            parallel == create_parallel_switch(CasesOf(sw), ElseOf(sw))
        IN  /\ short # parallel
            /\ ExpectShortCircuit(input) <=> ResultAt(input, mid) = short
            /\ ~ExpectShortCircuit(input) <=> ResultAt(input, mid) = parallel

C6_Witness ==
    /\ pc = "done"
    /\ ContextOf(input) = "Return"
    /\ ~HasShortCircuitFlag(SwitchOf(input))
    /\ Len(NormalBranches(SwitchOf(input))) = 1
    /\ Len(ElseBranches(SwitchOf(input))) = 1
    /\ ResultAt(input, mid).name = NameIdent(REACT_FRAGMENT)
    /\ Len(ResultAt(input, mid).children) = 2

-----------------------------------------------------------------------------
(* A branch's content in a chain: its only non-whitespace child when that  *)
(* is an element, otherwise a fragment of its non-whitespace children.     *)
ContentOf(children) ==
    IF OnlyElement(children) # None
    THEN OnlyElement(children)
    ELSE JSXFragment(SelectSeq(children,
                               LAMBDA c : ~(c.k = "JSXText" /\ trim_is_empty(c.value))))

(* Is e the chain t_i ? B_i : (t_i+1 ? ... : z) of the branches from i on, *)
(* each test the branch's condition or Boolean() of it?                    *)
RECURSIVE IsRightNested(_, _, _, _)
IsRightNested(e, branches, i, z) ==
    IF i > Len(branches)
    THEN e = z
    ELSE /\ e.k = "Cond"
         /\ \/ e.test = IfOf(branches[i])
            \/ e.test = Call(Ident("Boolean"), <<IfOf(branches[i])>>)
         /\ e.cons = ContentOf(branches[i].children)
         /\ IsRightNested(e.alt, branches, i + 1, z)

(* The expression the result of a rewrite carries.                         *)
CarriedExpr(result) == result.children[1].expr

(* The innermost false arm: the else content, or null.                     *)
InnermostArm(sw) ==
    IF ElseBranches(sw) = <<>>
    THEN NullLit
    ELSE ContentOf(ElseBranches(sw)[Len(ElseBranches(sw))].children)

(* C7.  Short-circuit assembly of the normal branches (c1,B1)..(cn,Bn)     *)
(* gives the right-nested chain t1 ? B1' : (t2 ? B2' : (... (tn ? Bn' :    *)
(* Z))): ti is ci, possibly coerced, Bi' the content of branch i, and Z    *)
(* the else content when there is an else branch, null otherwise.          *)
C7_RightNestedChain ==
    ( /\ pc = "done"
      /\ Len(NormalBranches(SwitchOf(input))) >= 1
      /\ ExpectShortCircuit(input) ) =>
        /\ Len(ResultAt(input, mid).children) = 1
        /\ IsRightNested(CarriedExpr(ResultAt(input, mid)),
                         NormalBranches(SwitchOf(input)), 1,
                         InnermostArm(SwitchOf(input)))

C7_Witness ==
    /\ pc = "done"
    /\ ExpectShortCircuit(input)
    /\ Len(NormalBranches(SwitchOf(input))) = 2
    /\ ElseBranches(SwitchOf(input)) # <<>>
    /\ CarriedExpr(ResultAt(input, mid)).alt.k = "Cond"
    /\ CarriedExpr(ResultAt(input, mid)).alt.alt.k = "JSXElement"
    /\ CarriedExpr(ResultAt(input, mid)).test # CarriedExpr(ResultAt(input, mid)).alt.test

-----------------------------------------------------------------------------
(* A test without its Boolean() coercion.                                  *)
Uncoerced(test) ==
    IF test.k = "Call" /\ test.callee = Ident("Boolean") /\ Len(test.args) = 1
    THEN test.args[1]
    ELSE test

(* The tests and the true arms of a chain of conditionals, from the        *)
(* outermost conditional inward.                                           *)
RECURSIVE TestsInward(_)
TestsInward(e) ==
    IF e.k = "Cond" THEN <<Uncoerced(e.test)>> \o TestsInward(e.alt) ELSE <<>>

RECURSIVE ArmsInward(_)
ArmsInward(e) ==
    IF e.k = "Cond" THEN <<e.cons>> \o ArmsInward(e.alt) ELSE <<>>

(* The expression-container children of an element.                        *)
Containers(element) ==
    SelectSeq(element.children, LAMBDA c : c.k = "JSXExprContainer")

(* C8.  Branch order preservation for a Switch with normal branches        *)
(* B1..Bn: in short-circuit mode the tests are c1..cn from the outermost   *)
(* conditional inward, each with its own branch's content; in parallel     *)
(* mode the i-th expression container of the output fragment holds the     *)
(* conditional of Bi; no branch is dropped, duplicated or reordered.       *)
C8_BranchOrder ==
    (pc = "done" /\ Len(NormalBranches(SwitchOf(input))) >= 1) =>
        LET branches == NormalBranches(SwitchOf(input))
            n == Len(branches)
            result == ResultAt(input, mid)
        IN  IF ExpectShortCircuit(input)
            THEN /\ TestsInward(CarriedExpr(result)) = [i \in 1..n |-> IfOf(branches[i])]
                 /\ ArmsInward(CarriedExpr(result)) =
                        [i \in 1..n |-> ContentOf(branches[i].children)]
            ELSE /\ Len(Containers(result)) =
                        n + (IF ElseBranches(SwitchOf(input)) = <<>> THEN 0 ELSE 1)
                 /\ Containers(result) = result.children
                 /\ \A i \in 1..n :
                        /\ Containers(result)[i].expr.k = "Cond"
                        /\ Containers(result)[i].expr.test = IfOf(branches[i])
                        /\ Containers(result)[i].expr.cons = JSXFragment(branches[i].children)
                        /\ Containers(result)[i].expr.alt = NullLit

C8_Witness ==
    /\ pc = "done"
    /\ ~ExpectShortCircuit(input)
    /\ Len(NormalBranches(SwitchOf(input))) = 2
    /\ Len(Containers(ResultAt(input, mid))) >= 2
    /\ Containers(ResultAt(input, mid))[1].expr.test = IfOf(NormalBranches(SwitchOf(input))[1])
    /\ Containers(ResultAt(input, mid))[2].expr.test = IfOf(NormalBranches(SwitchOf(input))[2])
    /\ Containers(ResultAt(input, mid))[1].expr.cons # Containers(ResultAt(input, mid))[2].expr.cons

-----------------------------------------------------------------------------
(* Evaluation of the output.  env is the set of the names of the truthy    *)
(* conditions; what is rendered is known by the markers it shows.          *)

MarkerNames == { Marker(k) : k \in 1..(MaxCases + 1) }

ConditionNames == { CaseCondition(k).sym : k \in 1..MaxCases }

(* The truthiness of a test.                                               *)
RECURSIVE Eval(_, _)
Eval(e, env) ==
    CASE e.k = "Ident" -> e.sym \in env
      [] e.k = "Bool" -> e.bval
      [] e.k = "Call" -> Eval(e.args[1], env)
      [] e.k = "Unary" -> ~Eval(e.arg, env)
      [] e.k = "Bin" -> Eval(e.left, env) /\ Eval(e.right, env)
      [] e.k = "Paren" -> Eval(e.expr, env)
      [] OTHER -> FALSE

(* The markers that x shows when rendered: null shows nothing, a           *)
(* conditional shows the arm its test selects.                             *)
RECURSIVE Render(_, _)
Render(x, env) ==
    CASE x.k = "JSXElement" ->
            (IF x.name.t = "Ident" THEN {x.name.sym} \cap MarkerNames ELSE {})
            \cup UNION { Render(x.children[j], env) : j \in 1..Len(x.children) }
      [] x.k = "JSXFragment" ->
            UNION { Render(x.children[j], env) : j \in 1..Len(x.children) }
      [] x.k = "JSXText" -> Range(x.value) \cap MarkerNames
      [] x.k \in {"JSXExprContainer", "Paren"} -> Render(x.expr, env)
      [] x.k = "Cond" ->
            IF Eval(x.test, env) THEN Render(x.cons, env) ELSE Render(x.alt, env)
      [] OTHER -> {}

(* The markers of a branch of the input.                                   *)
Shown(children) == UNION { Render(children[j], {}) : j \in 1..Len(children) }

(* The normal branches whose condition is truthy.                          *)
Truthy(sw, env) ==
    { i \in 1..Len(NormalBranches(sw)) : IfOf(NormalBranches(sw)[i]).sym \in env }

ElseShown(sw) ==
    IF ElseBranches(sw) = <<>> THEN {} ELSE Shown(ElseBranches(sw)[1].children)

(* C9.  The output evaluated under every truth assignment to the branch    *)
(* conditions.  Parallel mode: the content of branch i renders if and only *)
(* if ci is truthy, each truthy branch independently of the others, and    *)
(* the else content renders if and only if no ci is truthy.  Short-circuit *)
(* mode: only the content of the first truthy branch in source order       *)
(* renders, also when a later condition is truthy, and the else content,   *)
(* or nothing, renders when none is.  (Switches with at most one else      *)
(* branch.)                                                                *)
C9_GuardEvaluation ==
    ( /\ pc = "done"
      /\ Len(NormalBranches(SwitchOf(input))) >= 1
      /\ Len(ElseBranches(SwitchOf(input))) <= 1 ) =>
        \A env \in SUBSET ConditionNames :
            LET sw == SwitchOf(input)
                truthy == Truthy(sw, env)
                first == CHOOSE i \in truthy : \A j \in truthy : i <= j
            IN  Render(ResultAt(input, out), env) =
                    IF truthy = {}
                    THEN ElseShown(sw)
                    ELSE IF ExpectShortCircuit(input)
                    THEN Shown(NormalBranches(sw)[first].children)
                    ELSE UNION { Shown(NormalBranches(sw)[i].children) : i \in truthy }

C9_Witness ==
    /\ pc = "done"
    /\ ExpectShortCircuit(input)
    /\ Len(NormalBranches(SwitchOf(input))) = 2
    /\ Len(ElseBranches(SwitchOf(input))) = 1
    /\ Render(ResultAt(input, out), {"c1", "c2"}) = {"m1"}
    /\ Render(ResultAt(input, out), {"c2"}) = {"m2"}
    /\ Render(ResultAt(input, out), {}) = {Marker(MaxCases + 1)}

-----------------------------------------------------------------------------
(* The nodes directly below a node of the output, in order.                *)
Kids(x) ==
    CASE x.k \in {"JSXElement", "JSXFragment"} -> x.children
      [] x.k \in {"JSXExprContainer", "Paren"} -> <<x.expr>>
      [] x.k = "Cond" -> <<x.test, x.cons, x.alt>>
      [] x.k = "Call" -> <<x.callee>> \o x.args
      [] x.k = "Unary" -> <<x.arg>>
      [] x.k = "Bin" -> <<x.left, x.right>>
      [] OTHER -> <<>>

(* The number of occurrences of the expression c in the tree x.            *)
RECURSIVE CountIn(_, _)
RECURSIVE CountInAll(_, _)
CountIn(x, c) == (IF x = c THEN 1 ELSE 0) + CountInAll(Kids(x), c)

CountInAll(xs, c) ==
    IF xs = <<>> THEN 0 ELSE CountIn(Head(xs), c) + CountInAll(Tail(xs), c)

(* The conjuncts of a conjunction, left to right.                          *)
RECURSIVE Conjuncts(_)
Conjuncts(e) ==
    IF e.k = "Bin" /\ e.op = "&&"
    THEN Conjuncts(e.left) \o Conjuncts(e.right)
    ELSE <<e>>

(* C10.  Parallel assembly of normal conditions c1..cn, n >= 1.  With an   *)
(* else branch the test of the else conditional is !c1 && !c2 && ... &&    *)
(* !cn, every normal condition once and in source order, each a copy of    *)
(* the branch's condition, so that every ci occurs exactly twice in the    *)
(* output; without an else branch every ci occurs exactly once.            *)
C10_ElseGuard ==
    ( /\ pc = "done"
      /\ Len(NormalBranches(SwitchOf(input))) >= 1
      /\ ~ExpectShortCircuit(input) ) =>
        LET branches == NormalBranches(SwitchOf(input))
            n == Len(branches)
            result == ResultAt(input, out)
            last == result.children[Len(result.children)]
        IN  IF ElseBranches(SwitchOf(input)) # <<>>
            THEN /\ last.k = "JSXExprContainer"
                 /\ last.expr.k = "Cond"
                 /\ Conjuncts(last.expr.test) =
                        [i \in 1..n |-> Unary("!", IfOf(branches[i]))]
                 /\ \A i \in 1..n : CountIn(result, IfOf(branches[i])) = 2
            ELSE \A i \in 1..n : CountIn(result, IfOf(branches[i])) = 1

C10_Witness ==
    /\ pc = "done"
    /\ ~ExpectShortCircuit(input)
    /\ Len(NormalBranches(SwitchOf(input))) = 2
    /\ ElseBranches(SwitchOf(input)) # <<>>
    /\ Len(ResultAt(input, out).children) = 3
    /\ ResultAt(input, out).children[3].expr.test.k = "Bin"
    /\ CountIn(ResultAt(input, out), Ident("c1")) = 2
    /\ CountIn(ResultAt(input, out), Ident("c2")) = 2

-----------------------------------------------------------------------------
(* Is x a React.Fragment element without attributes whose children are     *)
(* expression containers that hold conditionals?                           *)
IsFragmentOfConditionals(x) ==
    /\ x.k = "JSXElement"
    /\ x.name = [t |-> "Ident", sym |-> "React.Fragment"]
    /\ x.attrs = <<>>
    /\ \A j \in 1..Len(x.children) :
          /\ x.children[j].k = "JSXExprContainer"
          /\ x.children[j].expr.k = "Cond"

(* C11.  Parallel assembly gives a React.Fragment element, never a         *)
(* placeholder, with one expression container per branch, in TemplateChild *)
(* (Jsx), Assignment and Return context alike; the test of each normal     *)
(* branch is the raw condition in every context, without a Boolean() call. *)
C11_ParallelWrapper ==
    ( /\ pc = "done"
      /\ Len(NormalBranches(SwitchOf(input))) >= 1
      /\ ~ExpectShortCircuit(input) ) =>
        LET branches == NormalBranches(SwitchOf(input))
            n == Len(branches)
            e == IF ElseBranches(SwitchOf(input)) = <<>> THEN 0 ELSE 1
        IN  /\ ResultAt(input, out) = ResultAt(input, mid)
            /\ IsFragmentOfConditionals(ResultAt(input, out))
            /\ ~IsPlaceholder(ResultAt(input, out))
            /\ Len(ResultAt(input, out).children) = n + e
            /\ \A i \in 1..n :
                  /\ ResultAt(input, out).children[i].expr.test = IfOf(branches[i])
                  /\ ResultAt(input, out).children[i].expr.test.k # "Call"

C11_Witness ==
    /\ pc = "done"
    /\ ContextOf(input) = "Assignment"
    /\ ~ExpectShortCircuit(input)
    /\ Len(NormalBranches(SwitchOf(input))) = 2
    /\ IsFragmentOfConditionals(StmtExpr(out[1]))
    /\ StmtExpr(out[1]).children[1].expr.test = Ident("c1")
    /\ StmtExpr(out[1]).children[2].expr.test.k = "Ident"

-----------------------------------------------------------------------------
(* The number of non-whitespace children.                                  *)
RealCount(children) ==
    Len(SelectSeq(children, LAMBDA c : ~(c.k = "JSXText" /\ trim_is_empty(c.value))))

(* The true arms that the branches of the Switch have in the final output, *)
(* normal branch by normal branch: of the chain in short-circuit mode, of  *)
(* the containers in parallel mode.                                        *)
FinalArms(program, tree) ==
    LET result == ResultAt(program, tree)
    IN  IF ExpectShortCircuit(program)
        THEN ArmsInward(IF result.k = "Cond" THEN result ELSE CarriedExpr(result))
        ELSE [i \in 1..Len(NormalBranches(SwitchOf(program))) |-> result.children[i].expr.cons]

(* C12 as claimed.  Single-child collapsing, in both modes: after both     *)
(* folds a branch with exactly one non-whitespace child that is an element *)
(* is that bare element, without a fragment around it, and a branch with   *)
(* two or more non-whitespace children is wrapped in a fragment.           *)
C12_CollapseInBothModes ==
    (pc = "done" /\ Len(NormalBranches(SwitchOf(input))) >= 1) =>
        LET branches == NormalBranches(SwitchOf(input))
        IN  \A i \in 1..Len(branches) :
              /\ OnlyElement(branches[i].children) # None =>
                    FinalArms(input, out)[i] = OnlyElement(branches[i].children)
              /\ RealCount(branches[i].children) >= 2 =>
                    FinalArms(input, out)[i].k = "JSXFragment"

(* C12 as the code has it.  In short-circuit mode a branch with exactly    *)
(* one non-whitespace child that is an element is that bare element and a  *)
(* branch with two or more non-whitespace children is wrapped in a         *)
(* fragment.  In parallel mode every branch is wrapped in a fragment that  *)
(* holds all its children, a branch with a single element child too: the   *)
(* second fold does not collapse it.                                       *)
C12_CollapseInChainOnly ==
    (pc = "done" /\ Len(NormalBranches(SwitchOf(input))) >= 1) =>
        LET branches == NormalBranches(SwitchOf(input))
        IN  \A i \in 1..Len(branches) :
              IF ExpectShortCircuit(input)
              THEN /\ OnlyElement(branches[i].children) # None =>
                         FinalArms(input, out)[i] = OnlyElement(branches[i].children)
                   /\ RealCount(branches[i].children) >= 2 =>
                         FinalArms(input, out)[i].k = "JSXFragment"
              ELSE FinalArms(input, out)[i] = JSXFragment(branches[i].children)

C12_Witness ==
    /\ pc = "done"
    /\ ~ExpectShortCircuit(input)
    /\ Len(NormalBranches(SwitchOf(input))) = 2
    /\ OnlyElement(NormalBranches(SwitchOf(input))[1].children) # None
    /\ RealCount(NormalBranches(SwitchOf(input))[2].children) >= 2
    /\ FinalArms(input, out)[1].k = "JSXFragment"
    /\ OnlyElement(FinalArms(input, out)[1].children) = EL("m1")
    /\ FinalArms(input, out)[2].k = "JSXFragment"

-----------------------------------------------------------------------------
(* The non-whitespace children.                                            *)
RealChildren(children) ==
    SelectSeq(children, LAMBDA c : ~(c.k = "JSXText" /\ trim_is_empty(c.value)))

(* The else branch in use.                                                 *)
ElseInUse(sw) == ElseBranches(sw)[Len(ElseBranches(sw))]

IsElseOnly(program) ==
    /\ NormalBranches(SwitchOf(program)) = <<>>
    /\ ElseBranches(SwitchOf(program)) # <<>>

(* C13 as claimed.  A Switch with no normal branch and an else branch      *)
(* gives no conditional expression, with or without the shortCircuit flag. *)
(* In TemplateChild (Jsx) context the result is the single element of the  *)
(* else branch when it has exactly one non-whitespace child that is an     *)
(* element, otherwise a React.Fragment element holding the else children;  *)
(* in Return or Assignment context the final output is that element, or a  *)
(* fragment of the else children, as a bare expression.                    *)
C13_ElseOnlyAllChildren ==
    (pc = "done" /\ IsElseOnly(input)) =>
        LET children == ElseInUse(SwitchOf(input)).children
            single == OnlyElement(children)
        IN  /\ \A x \in Sub(ResultAt(input, out)) : x.k # "Cond"
            /\ ContextOf(input) = "Jsx" =>
                  ResultAt(input, out) =
                        IF single # None
                        THEN single
                        ELSE [k |-> "JSXElement",
                              name |-> [t |-> "Ident", sym |-> "React.Fragment"],
                              attrs |-> <<>>,
                              children |-> children]
            /\ ContextOf(input) \in {"Return", "Assignment"} =>
                  ResultAt(input, out) =
                        IF single # None
                        THEN single
                        ELSE [k |-> "JSXFragment", children |-> children]

(* What holds of the else-only Switch: the same, but the React.Fragment    *)
(* element and the fragment hold the non-whitespace children of the else   *)
(* branch only; its whitespace-only texts are dropped.                     *)
ElseOnlyHoistedFiltered ==
    (pc = "done" /\ IsElseOnly(input)) =>
        LET children == ElseInUse(SwitchOf(input)).children
            single == OnlyElement(children)
        IN  /\ \A x \in Sub(ResultAt(input, out)) : x.k # "Cond"
            /\ ContextOf(input) = "Jsx" =>
                  /\ ResultAt(input, out) = ResultAt(input, mid)
                  /\ ResultAt(input, out) =
                        IF single # None
                        THEN single
                        ELSE [k |-> "JSXElement",
                              name |-> [t |-> "Ident", sym |-> "React.Fragment"],
                              attrs |-> <<>>,
                              children |-> RealChildren(children)]
            /\ ContextOf(input) \in {"Return", "Assignment"} =>
                  /\ IsPlaceholder(ResultAt(input, mid))
                  /\ ResultAt(input, out) =
                        IF single # None
                        THEN single
                        ELSE [k |-> "JSXFragment", children |-> RealChildren(children)]

-----------------------------------------------------------------------------
(* An element tagged Condition or Switch that does not meet the contract   *)
(* of its tag.                                                             *)
IsInertDirective(x) ==
    /\ x.k = "JSXElement"
    /\ x.name \in {NameIdent(CONDITION_TAG), NameIdent(SWITCH_TAG)}
    /\ ~IsDirective(x)

(* The program with the tag of the element that is the expression of its   *)
(* one statement replaced.                                                 *)
Retagged(program, name) ==
    CASE program[1].k = "Return" -> <<[program[1] EXCEPT !.arg.name = name]>>
      [] program[1].k = "VarDecl" -> <<[program[1] EXCEPT !.init.name = name]>>
      [] program[1].k = "ExprStmt" -> <<[program[1] EXCEPT !.expr.name = name]>>

(* C14.  A directive-tagged element that does not meet its contract (a     *)
(* Condition without an `if={expr}` attribute, a Switch without a          *)
(* Switch.Case child) is kept with its tag and attributes, and its         *)
(* children are rewritten exactly as the children of an ordinary element:  *)
(* both folds give what they give for the same element tagged `div`, but   *)
(* for the tag.                                                            *)
C14_InertDirectiveKept ==
    pc = "done" =>
        /\ \A e \in FoldedIn(input) :
              IsInertDirective(e) =>
                 \E f \in Elements(mid) \cap Elements(out) :
                    /\ f.name = e.name
                    /\ f.attrs = e.attrs
                    /\ Len(f.children) = Len(e.children)
        /\ ( /\ Len(input) = 1
             /\ StmtExpr(input[1]).k = "JSXElement"
             /\ IsInertDirective(StmtExpr(input[1])) ) =>
              LET e == StmtExpr(input[1])
                  ordinary == Retagged(input, NameIdent("div"))
                  folded == TransformProgram(ordinary).n
              IN  /\ mid = Retagged(folded, e.name)
                  /\ out = Retagged(PostTransformProgram(folded), e.name)
                  /\ StmtExpr(out[1]).attrs = e.attrs
                  /\ \A j \in 1..Len(e.children) :
                        IsConditionDirective(e.children[j]) =>
                           StmtExpr(out[1]).children[j].name = NameIdent(REACT_FRAGMENT)

C14_Witness ==
    /\ pc = "done"
    /\ Len(input) = 1
    /\ StmtExpr(input[1]).k = "JSXElement"
    /\ IsInertDirective(StmtExpr(input[1]))
    /\ StmtExpr(input[1]).name = NameIdent(CONDITION_TAG)
    /\ StmtExpr(input[1]).attrs # <<>>
    /\ StmtExpr(input[1]).children = <<InnerCondition>>
    /\ StmtExpr(out[1]).name = NameIdent(CONDITION_TAG)
    /\ StmtExpr(out[1]).attrs = StmtExpr(input[1]).attrs
    /\ StmtExpr(out[1]).children[1].name = NameIdent(REACT_FRAGMENT)

-----------------------------------------------------------------------------
(* The markers that occur anywhere in the tree x, as an element's name or  *)
(* in a text.                                                              *)
MarkersIn(x) ==
    { m \in MarkerNames :
        \E y \in Sub(x) :
            \/ y.k = "JSXElement" /\ y.name = NameIdent(m)
            \/ y.k = "JSXText" /\ m \in Range(y.value) }

(* The children of a Switch that are not collected: everything but the     *)
(* cases with `if={expr}` and the cases with `else`.                       *)
Uncollected(sw) ==
    { sw.children[j] : j \in { i \in 1..Len(sw.children) :
                                  ~IsIfCase(sw.children[i]) /\ ~IsElseCase(sw.children[i]) } }

HasNoUsableCase(sw) ==
    /\ IsSwitchDirective(sw)
    /\ NormalBranches(sw) = <<>>
    /\ ElseBranches(sw) = <<>>

(* C15.  A Switch with a Switch.Case child but no case that carries        *)
(* `if={expr}` or `else` is replaced by a React.Fragment element without   *)
(* children, in every context; in every rewritten Switch the cases with    *)
(* neither attribute and the children that are no cases are not emitted.   *)
C15_NoUsableCase ==
    pc = "done" =>
        /\ HasNoUsableCase(SwitchOf(input)) =>
              /\ ResultAt(input, mid) =
                    [k |-> "JSXElement",
                     name |-> [t |-> "Ident", sym |-> "React.Fragment"],
                     attrs |-> <<>>,
                     children |-> <<>>]
              /\ ResultAt(input, out) = ResultAt(input, mid)
        /\ IsSwitchDirective(SwitchOf(input)) =>
              \A c \in Uncollected(SwitchOf(input)) :
                  MarkersIn(c) \cap MarkersIn(ResultAt(input, out)) = {}

C15_Witness ==
    /\ pc = "done"
    /\ HasNoUsableCase(SwitchOf(input))
    /\ ContextOf(input) = "Return"
    /\ \E c \in Uncollected(SwitchOf(input)) : MarkersIn(c) # {}
    /\ StmtExpr(out[1]).name = NameIdent(REACT_FRAGMENT)
    /\ StmtExpr(out[1]).children = <<>>

-----------------------------------------------------------------------------
(* C16 as claimed.  Of several Switch.Case marked `else` the first in      *)
(* source order is the else branch of the output; the content of every     *)
(* later one is discarded.                                                 *)
C16_FirstElseWins ==
    (pc = "done" /\ Len(ElseBranches(SwitchOf(input))) >= 2) =>
        LET elses == ElseBranches(SwitchOf(input))
        IN  /\ Range(RealChildren(elses[1].children)) \subseteq Sub(ResultAt(input, out))
            /\ \A j \in 2..Len(elses) :
                  MarkersIn(elses[j]) \cap MarkersIn(ResultAt(input, out)) = {}

(* C16 as the code has it.  Of several Switch.Case marked `else` the last  *)
(* in source order is the else branch of the output: its non-whitespace    *)
(* children are in the output, and the content of every earlier one is     *)
(* discarded.                                                              *)
C16_LastElseWins ==
    (pc = "done" /\ Len(ElseBranches(SwitchOf(input))) >= 2) =>
        LET elses == ElseBranches(SwitchOf(input))
        IN  /\ Range(RealChildren(elses[Len(elses)].children))
                  \subseteq Sub(ResultAt(input, out))
            /\ \A j \in 1..(Len(elses) - 1) :
                  MarkersIn(elses[j]) \cap MarkersIn(ResultAt(input, out)) = {}

C16_Witness ==
    /\ pc = "done"
    /\ Len(ElseBranches(SwitchOf(input))) = 2
    /\ Len(NormalBranches(SwitchOf(input))) = 1
    /\ MarkersIn(ElseBranches(SwitchOf(input))[1]) # {}
    /\ MarkersIn(ElseBranches(SwitchOf(input))[2]) # {}
    /\ MarkersIn(ElseBranches(SwitchOf(input))[2]) \subseteq MarkersIn(ResultAt(input, out))
    /\ MarkersIn(ElseBranches(SwitchOf(input))[1]) \cap MarkersIn(ResultAt(input, out)) = {}

-----------------------------------------------------------------------------
IsWhitespaceText(c) == c.k = "JSXText" /\ trim_is_empty(c.value)

(* C17.  Whitespace-only text children of a switch branch do not count     *)
(* when it is decided whether the branch has exactly one real child, but a *)
(* branch emitted as a fragment of several children (two or more non-      *)
(* whitespace children) still has every whitespace-only text child in the  *)
(* emitted fragment, in short-circuit mode as in parallel mode.  The       *)
(* short-circuit assembly breaks it: it emits the filtered children.       *)
C17_WhitespaceKept ==
    (pc = "done" /\ Len(NormalBranches(SwitchOf(input))) >= 1) =>
        LET branches == NormalBranches(SwitchOf(input))
        IN  \A i \in 1..Len(branches) :
              /\ ( /\ RealCount(branches[i].children) = 1
                   /\ Len(branches[i].children) > 1
                   /\ ExpectShortCircuit(input) ) =>
                      FinalArms(input, out)[i] = ContentOf(branches[i].children)
              /\ RealCount(branches[i].children) >= 2 =>
                    /\ FinalArms(input, out)[i].k = "JSXFragment"
                    /\ \A j \in 1..Len(branches[i].children) :
                          IsWhitespaceText(branches[i].children[j]) =>
                             branches[i].children[j] \in Range(FinalArms(input, out)[i].children)

(* What holds of the whitespace: a branch of several children keeps its    *)
(* whitespace-only texts in parallel mode and loses all of them in         *)
(* short-circuit mode.                                                     *)
WhitespaceByMode ==
    (pc = "done" /\ Len(NormalBranches(SwitchOf(input))) >= 1) =>
        LET branches == NormalBranches(SwitchOf(input))
        IN  \A i \in 1..Len(branches) :
              RealCount(branches[i].children) >= 2 =>
                 FinalArms(input, out)[i] =
                    IF ExpectShortCircuit(input)
                    THEN JSXFragment(RealChildren(branches[i].children))
                    ELSE JSXFragment(branches[i].children)

-----------------------------------------------------------------------------
(* The trees of the AST: is x a statement ("stmt"), an expression          *)
(* ("expr") or a JSX child ("child")?  What a fold returns on a failed     *)
(* match or unwrap is none of them.                                        *)
RECURSIVE WellFormed(_, _)
WellFormed(sort, x) ==
    CASE sort = "stmt" ->
            CASE x.k = "Return" -> x.arg.k = "None" \/ WellFormed("expr", x.arg)
              [] x.k = "VarDecl" -> x.init.k = "None" \/ WellFormed("expr", x.init)
              [] x.k = "ExprStmt" -> WellFormed("expr", x.expr)
              [] OTHER -> FALSE
      [] sort = "expr" ->
            CASE x.k \in {"Ident", "Null", "Bool"} -> TRUE
              [] x.k \in {"JSXElement", "JSXFragment"} ->
                    \A j \in 1..Len(x.children) : WellFormed("child", x.children[j])
              [] x.k = "Cond" ->
                    /\ WellFormed("expr", x.test)
                    /\ WellFormed("expr", x.cons)
                    /\ WellFormed("expr", x.alt)
              [] x.k = "Paren" -> WellFormed("expr", x.expr)
              [] x.k = "Unary" -> WellFormed("expr", x.arg)
              [] x.k \in {"Bin", "Assign"} ->
                    WellFormed("expr", x.left) /\ WellFormed("expr", x.right)
              [] x.k = "Call" ->
                    /\ WellFormed("expr", x.callee)
                    /\ \A j \in 1..Len(x.args) : WellFormed("expr", x.args[j])
              [] x.k = "Arrow" ->
                    \A j \in 1..Len(x.body) : WellFormed("stmt", x.body[j])
              [] OTHER -> FALSE
      [] sort = "child" ->
            CASE x.k = "JSXText" -> TRUE
              [] x.k \in {"JSXElement", "JSXFragment"} -> WellFormed("expr", x)
              [] x.k = "JSXExprContainer" ->
                    x.expr.k = "JSXEmptyExpr" \/ WellFormed("expr", x.expr)
              [] x.k = "JSXSpreadChild" -> WellFormed("expr", x.expr)
              [] OTHER -> FALSE

IsTree(program) == \A i \in 1..Len(program) : WellFormed("stmt", program[i])

-----------------------------------------------------------------------------
(* The nodes whose visit sets the context, and the fold that visits them.  *)
(* An element, a fragment or an expression container is visited as the     *)
(* child of an element by fold_jsx_element_child.                          *)
SetsContext(x) ==
    x.k \in {"Return", "VarDecl", "Assign", "JSXElement", "JSXFragment", "JSXExprContainer"}

VisitOf(x, ctx) ==
    CASE x.k = "Return" -> TV_fold("return_stmt", x, ctx)
      [] x.k = "VarDecl" -> TV_fold("var_declarator", x, ctx)
      [] x.k = "Assign" -> TV_fold("assign_expr", x, ctx)
      [] OTHER -> TV_fold("jsx_element_child", x, ctx)

(* C19.  The context is saved and restored: whatever the context before    *)
(* the visit of a return statement, a variable declarator, an assignment   *)
(* or a template child, and whatever is nested in the node, the context    *)
(* after the visit is the context before it; the same holds of the fold of *)
(* the whole tree, so after the first fold the context is Jsx again.       *)
C19_ContextRestored ==
    /\ \A x \in Nodes(input), ctx \in WrapperType :
          SetsContext(x) => VisitOf(x, ctx).c = ctx
    /\ \A ctx \in WrapperType : TV_fold("stmts", input, ctx).c = ctx
    /\ pc \in {"transformed", "done"} => ctxAfter = DefaultContext

C19_Witness ==
    /\ pc = "done"
    /\ input[1].k = "VarDecl"
    /\ \E x \in Nodes(input) : x.k = "Return" /\ IsConditionDirective(x.arg)
    /\ ctxAfter = DefaultContext

-----------------------------------------------------------------------------
(* The template-child slots: the children of an element or fragment that   *)
(* is no directive, and the expression of a child that is an expression    *)
(* container.                                                              *)
TemplateParents(program) ==
    { p \in Nodes(program) : p.k \in {"JSXElement", "JSXFragment"} /\ ~IsDirective(p) }

InSlot(child) == IF child.k = "JSXExprContainer" THEN child.expr ELSE child

IsReactFragment(x) == x.k = "JSXElement" /\ x.name = NameIdent(REACT_FRAGMENT)

(* A Switch whose rewrite in Jsx context is the one element of its else     *)
(* branch (lines 350-356).                                                 *)
HoistsElement(d) ==
    /\ IsSwitchDirective(d)
    /\ NormalBranches(d) = <<>>
    /\ ElseBranches(d) # <<>>
    /\ OnlyElement(ElseInUse(d).children) # None

(* The expression of the first statement is an element or fragment, no     *)
(* directive and no placeholder, with a directive in one of its slots.     *)
HasSlotDirective(program) ==
    /\ StmtExpr(program[1]) \in TemplateParents(program)
    /\ ~IsPlaceholder(StmtExpr(program[1]))
    /\ \E j \in 1..Len(StmtExpr(program[1]).children) :
          IsDirective(InSlot(StmtExpr(program[1]).children[j]))

(* C20 as claimed.  A directive that is a direct child of an element or    *)
(* fragment that is no directive, or the expression of an expression       *)
(* container there, is rewritten by the Jsx rules whatever the context of  *)
(* the enclosing element: the result is a React.Fragment element and no    *)
(* placeholder.  It fails for a Switch with only an else branch of one     *)
(* element, whose Jsx rewrite is that element.                             *)
C20_AlwaysFragmentWrapper ==
    (pc = "done" /\ HasSlotDirective(input)) =>
        LET p == StmtExpr(input[1])
        IN  \A j \in 1..Len(p.children) :
               IsDirective(InSlot(p.children[j])) =>
                  /\ InSlot(StmtExpr(mid[1]).children[j]) =
                        TV_fold("jsx_element", InSlot(p.children[j]), "Jsx").n
                  /\ ~IsPlaceholder(InSlot(StmtExpr(out[1]).children[j]))
                  /\ IsReactFragment(InSlot(StmtExpr(out[1]).children[j]))

(* C20 as amended.  A directive that is a direct child of an element or    *)
(* fragment that is no directive, or the expression of an expression       *)
(* container there, is rewritten by the Jsx rules whatever the context of  *)
(* the enclosing element: the result is what the directive gives in Jsx    *)
(* context, never a placeholder; it is a React.Fragment element, except    *)
(* for a Switch with only an else branch of one element, where it is that  *)
(* element.  The same stands in the output of both folds when the          *)
(* enclosing element is a return operand, an initializer or a statement.   *)
C20_TemplateChildRules ==
    /\ \A p \in TemplateParents(input), ctx \in WrapperType :
          \A j \in 1..Len(p.children) :
             IsDirective(InSlot(p.children[j])) =>
                LET d == InSlot(p.children[j])
                    r == InSlot(TV_fold("expr", p, ctx).n.children[j])
                IN  /\ r = TV_fold("jsx_element", d, "Jsx").n
                    /\ ~IsPlaceholder(r)
                    /\ IF HoistsElement(d)
                       THEN r = OnlyElement(ElseInUse(d).children)
                       ELSE IsReactFragment(r)
    /\ (pc \in {"transformed", "done"} /\ HasSlotDirective(input)) =>
          LET p == StmtExpr(input[1])
          IN  \A j \in 1..Len(p.children) :
                 IsDirective(InSlot(p.children[j])) =>
                    /\ InSlot(StmtExpr(mid[1]).children[j]) =
                          TV_fold("jsx_element", InSlot(p.children[j]), "Jsx").n
                    /\ pc = "done" =>
                          LET r == InSlot(StmtExpr(out[1]).children[j])
                          IN  /\ ~IsPlaceholder(r)
                              /\ HoistsElement(InSlot(p.children[j])) \/ IsReactFragment(r)

C20_Witness ==
    /\ pc = "done"
    /\ input[1].k \in {"Return", "VarDecl"}
    /\ HasSlotDirective(input)
    /\ StmtExpr(input[1]).children[1].k = "JSXExprContainer"
    /\ IsReactFragment(StmtExpr(out[1]).children[1].expr)

-----------------------------------------------------------------------------
(* The tests of a chain of conditionals as they stand, from the outermost  *)
(* conditional inward.                                                     *)
RECURSIVE ChainTests(_)
ChainTests(e) ==
    IF e.k = "Cond" THEN <<e.test>> \o ChainTests(e.alt) ELSE <<>>

(* The chain of a short-circuit switch in a fold's output: carried by the  *)
(* element that packages it, or bare once the placeholder is unwrapped.    *)
ChainAt(program, tree) ==
    IF ResultAt(program, tree).k = "Cond"
    THEN ResultAt(program, tree)
    ELSE CarriedExpr(ResultAt(program, tree))

(* C21.  In short-circuit assembly every branch test is Boolean(c) of the  *)
(* branch's condition c if and only if the context is Jsx (TemplateChild); *)
(* in Return and in Assignment context every branch test is c itself.  It  *)
(* stands so in the output of the first fold and in the final output.      *)
C21_ShortCircuitCoercion ==
    ( /\ pc = "done"
      /\ Len(NormalBranches(SwitchOf(input))) >= 1
      /\ ExpectShortCircuit(input) ) =>
        LET branches == NormalBranches(SwitchOf(input))
            expected == [i \in 1..Len(branches) |->
                            IF ContextOf(input) = "Jsx"
                            THEN Call(Ident("Boolean"), <<IfOf(branches[i])>>)
                            ELSE IfOf(branches[i])]
        IN  /\ ChainTests(ChainAt(input, mid)) = expected
            /\ ChainTests(ChainAt(input, out)) = expected

C21_Witness ==
    /\ pc = "done"
    /\ ExpectShortCircuit(input)
    /\ ContextOf(input) = "Assignment"
    /\ Len(NormalBranches(SwitchOf(input))) = 2
    /\ ChainTests(ChainAt(input, out)) =
          <<IfOf(NormalBranches(SwitchOf(input))[1]), IfOf(NormalBranches(SwitchOf(input))[2])>>

-----------------------------------------------------------------------------
(* The context a statement puts its expression in.                         *)
StmtContext(stmt) ==
    CASE stmt.k = "Return" -> "Return"
      [] stmt.k = "VarDecl" -> "Assignment"
      [] OTHER -> "Jsx"

(* A program whose one statement holds a Condition directive itself.       *)
IsConditionProgram(program) ==
    /\ Len(program) = 1
    /\ IsConditionDirective(StmtExpr(program[1]))

(* The shortCircuit Switch with the single case `if={c}` that has the      *)
(* condition and the children of the Condition directive d.                *)
SwitchTwin(d) ==
    JSXElement(NameIdent(SWITCH_TAG),
               <<JSXAttr(NameIdent(SHORT_CIRCUIT_ATTR), None)>>,
               <<JSXElement(NameMember("Switch", "Case"),
                            <<JSXAttr(NameIdent(IF_ATTR),
                                      JSXExprContainer(extract_condition_from_attrs(d.attrs)))>>,
                            d.children)>>)

(* Is the test of the conditional that the rewrite result carries          *)
(* Boolean(c)?                                                             *)
IsCoerced(result, c) == CarriedExpr(result).test = Call(Ident("Boolean"), <<c>>)

IsRaw(result, c) == CarriedExpr(result).test = c

(* C22 as claimed.  A Condition with `if={c}` and a shortCircuit Switch     *)
(* with the single case `if={c}` follow the same coercion rule: in each of *)
(* the three contexts both tests are Boolean(c) or both are c.  It fails   *)
(* in Assignment context.                                                  *)
C22_SameCoercionRule ==
    (pc = "done" /\ IsConditionProgram(input)) =>
        LET d == StmtExpr(input[1])
            c == extract_condition_from_attrs(d.attrs)
            twin == TV_fold("jsx_element", SwitchTwin(d), StmtContext(input[1])).n
        IN  /\ IsCoerced(StmtExpr(mid[1]), c) \/ IsRaw(StmtExpr(mid[1]), c)
            /\ IsCoerced(twin, c) \/ IsRaw(twin, c)
            /\ IsCoerced(StmtExpr(mid[1]), c) <=> IsCoerced(twin, c)

(* C22 as amended.  The two rewrites agree in Jsx context (both tests are  *)
(* Boolean(c)) and in Return context (both are c); in Assignment context   *)
(* the Condition's test is Boolean(c) and the Switch's test is c.          *)
C22_CoercionRulesCompared ==
    (pc = "done" /\ IsConditionProgram(input)) =>
        LET d == StmtExpr(input[1])
            c == extract_condition_from_attrs(d.attrs)
            ctx == StmtContext(input[1])
            twin == TV_fold("jsx_element", SwitchTwin(d), ctx).n
        IN  CASE ctx = "Jsx" -> IsCoerced(StmtExpr(mid[1]), c) /\ IsCoerced(twin, c)
              [] ctx = "Return" -> IsRaw(StmtExpr(mid[1]), c) /\ IsRaw(twin, c)
              [] ctx = "Assignment" -> IsCoerced(StmtExpr(mid[1]), c) /\ IsRaw(twin, c)

C22_Witness ==
    /\ pc = "done"
    /\ IsConditionProgram(input)
    /\ StmtContext(input[1]) = "Assignment"
    /\ StmtExpr(input[1]).children # <<>>
    /\ IsCoerced(StmtExpr(mid[1]), Ident("a"))
    /\ IsRaw(TV_fold("jsx_element", SwitchTwin(StmtExpr(input[1])), "Assignment").n, Ident("a"))

-----------------------------------------------------------------------------
(* The elements TransformVisitor::fold_jsx_element is called on, each with *)
(* the context it is called in: the traversal of lines 86-154, which sets  *)
(* Return, Assignment and Jsx as those lines do and does not go below a    *)
(* directive.                                                              *)
RECURSIVE MetWithContext(_, _)
MetWithContext(x, ctx) ==
    CASE x.k = "Return" -> MetWithContext(x.arg, "Return")
      [] x.k = "VarDecl" -> MetWithContext(x.init, "Assignment")
      [] x.k = "Assign" -> MetWithContext(x.right, "Assignment")
      [] x.k = "JSXElement" ->
            {<<x, ctx>>} \cup
            (IF IsDirective(x)
             THEN {}
             ELSE UNION { MetWithContext(c, "Jsx") :
                            c \in { y \in Range(x.children) : y.k # "JSXSpreadChild" } })
      [] x.k = "JSXFragment" ->
            UNION { MetWithContext(c, "Jsx") :
                      c \in { y \in Range(x.children) : y.k # "JSXSpreadChild" } }
      [] x.k = "JSXExprContainer" -> MetWithContext(x.expr, "Jsx")
      [] x.k \in {"ExprStmt", "Paren", "Cond", "Call", "Unary", "Bin", "Arrow"} ->
            UNION { MetWithContext(y, ctx) : y \in Below(x) }
      [] OTHER -> {}

(* The results of the rewrites of the first fold, each with the context it *)
(* was made in.                                                            *)
RewriteResults(program) ==
    { <<TV_fold("jsx_element", m[1], m[2]).n, m[2]>> :
        m \in { y \in UNION { MetWithContext(program[i], DefaultContext) :
                                 i \in 1..Len(program) } : IsDirective(y[1]) } }

CreatedPlaceholders(program) ==
    { r[1] : r \in { y \in RewriteResults(program) : IsPlaceholder(y[1]) } }

(* The expressions PostTransformVisitor::fold_expr is called on in the     *)
(* tree x met as a statement, an expression ("expr") or a JSX child: it    *)
(* does not go into the expression a placeholder carries (lines 758, 766), *)
(* nor into attributes (818-821), and an element met as a child is not     *)
(* passed to fold_expr.                                                    *)
RECURSIVE PostVisited(_, _)
PostVisited(sort, x) ==
    CASE sort = "child" ->
            CASE x.k \in {"JSXElement", "JSXFragment"} ->
                    UNION { PostVisited("child", c) : c \in Range(x.children) }
              [] x.k \in {"JSXExprContainer", "JSXSpreadChild"} ->
                    IF x.expr.k = "JSXEmptyExpr" THEN {} ELSE PostVisited("expr", x.expr)
              [] OTHER -> {}
      [] x.k \in {"Return", "VarDecl", "ExprStmt"} ->
            IF StmtExpr(x).k = "None" THEN {} ELSE PostVisited("expr", StmtExpr(x))
      [] x.k = "JSXElement" ->
            {x} \cup (IF IsPlaceholder(x) /\ CarriesExpr(x)
                      THEN {}
                      ELSE UNION { PostVisited("child", c) : c \in Range(x.children) })
      [] x.k = "JSXFragment" ->
            {x} \cup UNION { PostVisited("child", c) : c \in Range(x.children) }
      [] OTHER -> {x} \cup UNION { PostVisited("expr", y) : y \in Below(x) }

PostVisitedIn(program) == UNION { PostVisited("stmt", program[i]) : i \in 1..Len(program) }

(* The form of a placeholder the first fold makes, and the context it is   *)
(* made in.                                                                *)
PlaceholdersWellMade(program) ==
    \A r \in RewriteResults(program) :
       IsPlaceholder(r[1]) =>
          /\ r[2] \in {"Return", "Assignment"}
          /\ Len(r[1].children) = 1
          /\ r[1].children[1].k = "JSXExprContainer"
          /\ WellFormed("expr", r[1].children[1].expr)
          /\ r[1] \in Nodes(mid)

-----------------------------------------------------------------------------
(* C24.  Every placeholder the first fold makes for a Switch directive     *)
(* carries the tag __SWITCH_PLACEHOLDER__, distinct from the tag used for  *)
(* Condition directives, so that the second fold applies                   *)
(* unwrap_single_element_fragments to the chains made from a Switch.  The  *)
(* first fold has no such tag to give: the placeholder of a Switch is      *)
(* tagged __CONDITION_PLACEHOLDER__.                                       *)
C24_SwitchPlaceholderTag ==
    (pc = "done" /\ IsPlaceholder(ResultAt(input, mid))) =>
        ResultAt(input, mid).name = NameIdent(SWITCH_PLACEHOLDER)

(* What holds of the tags: a Switch in Return or Assignment context, in    *)
(* short-circuit assembly or with only an else branch, gives a placeholder *)
(* tagged __CONDITION_PLACEHOLDER__, and the second fold hands on what it  *)
(* carries as it is.                                                       *)
SwitchPlaceholderTagInUse ==
    (pc = "done" /\ IsPlaceholder(ResultAt(input, mid))) =>
        /\ ResultAt(input, mid).name = NameIdent(CONDITION_PLACEHOLDER)
        /\ ContextOf(input) \in {"Return", "Assignment"}
        /\ ResultAt(input, out) = CarriedExpr(ResultAt(input, mid))

-----------------------------------------------------------------------------
(* The expression of the first statement of the first fold's output is a   *)
(* placeholder tagged __CONDITION_PLACEHOLDER__ that carries an            *)
(* expression.                                                             *)
IsCarrierProgram(program) ==
    /\ Len(program) = 1
    /\ IsPlaceholder(StmtExpr(program[1]))
    /\ StmtExpr(program[1]).name = NameIdent(CONDITION_PLACEHOLDER)
    /\ CarriesExpr(StmtExpr(program[1]))

(* C25.  When the second fold unwraps a placeholder, the expression it     *)
(* carries is folded by the second fold before it takes the placeholder's  *)
(* place: a placeholder or a parenthesized conditional nested in it is     *)
(* treated as it would be outside a placeholder.  The code hands the       *)
(* carried expression on unfolded.                                         *)
C25_CarriedExprFolded ==
    (pc = "done" /\ IsCarrierProgram(mid)) =>
        StmtExpr(out[1]) = PTV_fold("expr", CarriedExpr(StmtExpr(mid[1])))

(* What holds of the carried expression: it takes the placeholder's place  *)
(* as it is.                                                               *)
CarriedExprAsIs ==
    (pc = "done" /\ IsCarrierProgram(mid)) =>
        StmtExpr(out[1]) = CarriedExpr(StmtExpr(mid[1]))

-----------------------------------------------------------------------------
(* An arm with more than one child, or with a text child that holds a      *)
(* newline.                                                                *)
IsMultiChildOrMultiline(arm) ==
    \/ Len(arm.children) > 1
    \/ \E i \in 1..Len(arm.children) :
          arm.children[i].k = "JSXText" /\ "nl" \in Range(arm.children[i].value)

(* The first statement holds a parenthesized expression whose folded inner *)
(* expression is a conditional.                                            *)
IsParenConditional(program, tree) ==
    /\ Len(program) = 1
    /\ StmtExpr(program[1]).k = "Paren"
    /\ StmtExpr(tree[1]).k = "Paren"
    /\ PTV_fold("expr", StmtExpr(tree[1]).expr).k = "Cond"

(* C26 as claimed.  The second fold replaces a parenthesized expression    *)
(* whose folded inner expression is a conditional by that conditional, its *)
(* true arm in parentheses if and only if the arm is a fragment or an      *)
(* element with more than one child or with a text child that holds a      *)
(* newline; an empty or single-child fragment is left without              *)
(* parentheses.  It fails for a fragment of at most one child.             *)
C26_ArmParenthesizedIfMulti ==
    (pc = "done" /\ IsParenConditional(input, mid)) =>
        LET inner == PTV_fold("expr", StmtExpr(mid[1]).expr)
            wrap == /\ inner.cons.k \in {"JSXElement", "JSXFragment"}
                    /\ IsMultiChildOrMultiline(inner.cons)
        IN  StmtExpr(out[1]) =
                Cond(inner.test, IF wrap THEN Paren(inner.cons) ELSE inner.cons, inner.alt)

(* C26 as amended.  The true arm is put in parentheses if and only if it   *)
(* is a fragment, whatever its children, or an element with more than one  *)
(* child or with a text child that holds a newline; an element of at most  *)
(* one child without such a text, and an arm that is neither, are left as  *)
(* they are.                                                               *)
C26_ArmParenthesized ==
    (pc = "done" /\ IsParenConditional(input, mid)) =>
        LET inner == PTV_fold("expr", StmtExpr(mid[1]).expr)
            wrap == \/ inner.cons.k = "JSXFragment"
                    \/ inner.cons.k = "JSXElement" /\ IsMultiChildOrMultiline(inner.cons)
        IN  StmtExpr(out[1]) =
                Cond(inner.test, IF wrap THEN Paren(inner.cons) ELSE inner.cons, inner.alt)

C26_Witness ==
    /\ pc = "done"
    /\ IsParenConditional(input, mid)
    /\ input[1].k = "Return"
    /\ IsConditionDirective(StmtExpr(input[1]).expr)
    /\ StmtExpr(out[1]).k = "Cond"
    /\ StmtExpr(out[1]).cons = Paren(JSXFragment(<<>>))

-----------------------------------------------------------------------------
(* The carried children that are no whitespace-only text.                  *)
CarriedReal(d) == { y \in Carried(d) : ~IsWhitespaceText(y) }

-----------------------------------------------------------------------------
(* What an attribute list holds: a directive, or a return statement, a     *)
(* variable declarator or a parenthesized conditional, on which a fold     *)
(* would act were it to visit the attributes.                              *)
AttrsHoldWork(attrs) ==
    \E i \in 1..Len(attrs) : \E y \in AttrNodes(attrs[i]) : \E z \in Sub(y) :
        \/ IsDirective(z)
        \/ z.k \in {"Return", "VarDecl"}
        \/ z.k = "Paren" /\ z.expr.k = "Cond"

(* C28.  Neither fold visits the attributes of an element: each fold hands *)
(* on the attribute list of an element that is no directive as it is, in   *)
(* every context, so that a directive, a return statement, a variable      *)
(* declarator or a parenthesized conditional inside an attribute value is  *)
(* in the final output what it was in the input.                           *)
C28_AttributesUnvisited ==
    /\ \A x \in Elements(input) :
          ~IsDirective(x) =>
             /\ \A ctx \in WrapperType : TV_fold("jsx_element", x, ctx).n.attrs = x.attrs
             /\ PTV_fold("jsx_element", x).attrs = x.attrs
             /\ PTV_fold("jsx_element", TV_fold("jsx_element", x, DefaultContext).n).attrs = x.attrs
    /\ ( /\ pc = "done"
         /\ StmtExpr(input[1]).k = "JSXElement"
         /\ ~IsDirective(StmtExpr(input[1]))
         /\ StmtExpr(input[1]).attrs # <<>> ) =>
            /\ StmtExpr(mid[1]).attrs = StmtExpr(input[1]).attrs
            /\ StmtExpr(out[1]).attrs = StmtExpr(input[1]).attrs

C28_Witness ==
    /\ pc = "done"
    /\ input[1].k = "Return"
    /\ StmtExpr(input[1]).k = "JSXElement"
    /\ StmtExpr(input[1]).name = NameIdent("div")
    /\ AttrsHoldWork(StmtExpr(input[1]).attrs)
    /\ \E y \in AttrNodes(StmtExpr(input[1]).attrs[1]) :
          y.k = "JSXExprContainer" /\ y.expr.k = "Arrow"
    /\ StmtExpr(out[1]) = StmtExpr(input[1])

-----------------------------------------------------------------------------
(* The Switch with its else cases moved behind all its other children.     *)
ElseLast(sw) ==
    [sw EXCEPT !.children =
        SelectSeq(sw.children, LAMBDA c : ~IsElseCase(c)) \o SelectSeq(sw.children, IsElseCase)]

(* A normal branch follows an else case among the children of the Switch.  *)
ElseBeforeNormal(sw) ==
    \E i, j \in 1..Len(sw.children) :
        i < j /\ IsElseCase(sw.children[i]) /\ IsIfCase(sw.children[j])

(* The last false arm of a chain of conditionals.                          *)
RECURSIVE ChainEnd(_)
ChainEnd(e) == IF e.k = "Cond" THEN ChainEnd(e.alt) ELSE e

(* C29.  The place of the else case among the children of a Switch does    *)
(* not change the output: the result is that of the same Switch with the   *)
(* else case moved to the end; the else content is the innermost false arm *)
(* in short-circuit mode and the last child of the output fragment in      *)
(* parallel mode, where its guard negates every normal condition, those of *)
(* the cases that follow the else in the source included.                  *)
C29_ElsePosition ==
    ( /\ pc = "done"
      /\ Len(NormalBranches(SwitchOf(input))) >= 1
      /\ ElseBranches(SwitchOf(input)) # <<>> ) =>
        LET sw == SwitchOf(input)
            branches == NormalBranches(sw)
            result == ResultAt(input, mid)
            last == result.children[Len(result.children)]
        IN  /\ result = TV_fold("jsx_element", ElseLast(sw), ContextOf(input)).n
            /\ IF ExpectShortCircuit(input)
               THEN ChainEnd(CarriedExpr(result)) = ContentOf(ElseInUse(sw).children)
               ELSE /\ last.k = "JSXExprContainer"
                    /\ last.expr.k = "Cond"
                    /\ last.expr.cons = JSXFragment(ElseInUse(sw).children)
                    /\ Conjuncts(last.expr.test) =
                          [i \in 1..Len(branches) |-> Unary("!", IfOf(branches[i]))]

C29_Witness ==
    /\ pc = "done"
    /\ ElseBeforeNormal(SwitchOf(input))
    /\ Len(ElseBranches(SwitchOf(input))) = 1
    /\ ~ExpectShortCircuit(input)
    /\ ResultAt(input, mid).children[2].expr.test =
          Unary("!", IfOf(NormalBranches(SwitchOf(input))[1]))

-----------------------------------------------------------------------------
(* The attributes of a directive: those of its element and, for a Switch,  *)
(* those of its Switch.Case children.                                      *)
DirectiveAttrs(d) ==
    Range(d.attrs) \cup
    (IF IsSwitchDirective(d)
     THEN UNION { Range(d.children[i].attrs) :
                    i \in { j \in 1..Len(d.children) :
                              /\ d.children[j].k = "JSXElement"
                              /\ is_switch_case_element(d.children[j]) } }
     ELSE {})

(* The attribute a is gone from the tree: no element carries it, and the   *)
(* value of an attribute other than `if` stands nowhere in it.             *)
AttrGone(a, tree) ==
    /\ \A y \in Elements(tree) : a \notin Range(y.attrs)
    /\ (a.t = "JSXAttr" /\ a.name # NameIdent(IF_ATTR) /\ a.aval # None)
          => a.aval \notin Nodes(tree)

(* C30.  No attribute of a rewritten Condition, Switch or Switch.Case is   *)
(* in the output, after either fold: only the expression of `if` is taken  *)
(* out of it; and every React.Fragment element of the output has an empty  *)
(* attribute list.                                                         *)
C30_AttributesDiscarded ==
    (pc = "done") =>
        /\ \A d \in RewrittenIn(input) : \A a \in DirectiveAttrs(d) :
              AttrGone(a, mid) /\ AttrGone(a, out)
        /\ \A y \in Elements(mid) \cup Elements(out) :
              y.name = NameIdent(REACT_FRAGMENT) => y.attrs = <<>>

C30_Witness ==
    /\ pc = "done"
    /\ KeyedSwitch \in RewrittenIn(input)
    /\ \E y \in Elements(out) :
          /\ y.name = NameIdent(REACT_FRAGMENT)
          /\ y.attrs = <<>>
          /\ Len(y.children) = 2
    /\ Ident("k") \notin Nodes(out)

====
